---- MODULE Spec2Model ----
(***************************************************************************)
(* Model of the mcp-js execution engine (src/src/executor.js) with the     *)
(* schema validator it consults (src/src/schema.js).                       *)
(*                                                                         *)
(* JavaScript runs every synchronous stretch of code to completion, so a   *)
(* state of the model is a state between two such stretches: the caller    *)
(* is idle or suspended at an await, and handlers (promises) are in        *)
(* flight.  Each action is one synchronous stretch.                        *)
(*                                                                         *)
(* Strings that the code builds by concatenation (error messages, return   *)
(* values) are sequences of string tokens: the empty message "" is <<>>.   *)
(***************************************************************************)
EXTENDS Integers, Sequences, FiniteSets, TLC

VARIABLES
    registry,    \* Executor.registry: name -> registration (DOMAIN = names registered)
    validators,  \* schemaValidator.validators: name -> compiled schema
    strict,      \* Executor.strict
    call,        \* the top-level asynchronous call in progress (or the last one)
    promises,    \* toolCall id -> state of the promise executeSingle returned for it
    hist,        \* history: toolCall id -> what happened to it in this call
    regOps,      \* number of registry operations done since the call started
    ret,         \* what the registry operation just performed returned or raised
    ids,         \* the clock and the callIds executeSingle has built
    stream,      \* a StreamingParser and what its addChunk calls returned
    peer,        \* the registry of a second Executor of the same process
    mcp          \* MCPMessageHandler: initialized, clientInfo, the request awaited

vars == <<registry, validators, strict, call, promises, hist, regOps, ret, ids, stream,
          peer, mcp>>

\* the variables of the callId, StreamingParser, second Executor and
\* MCPMessageHandler models
aside == <<ids, stream, peer, mcp>>

-----------------------------------------------------------------------------
(* Bounds *)

\* longest toolCalls array passed to execute
MaxCalls == 3
\* largest maxConcurrency passed to execute
MaxConc == 2
\* registry operations (register, unregister, clear) once the call has started
MaxRegOps == 1
\* the value of callCount and errorCount up to which further calls are made
MaxCount == 2
\* the milliseconds the clock advances, and the callIds built
MaxNow == 2
MaxIssued == 3
\* most resets of a StreamingParser
MaxResets == 1
\* the iterations of the batching loop of executeParallel that are followed
MaxBatches == 4

-----------------------------------------------------------------------------
(* Values *)

ToolNames == {"add", "echo"}
Handlers == {"h1"}
Schemas == {"any", "xy"}

\* JavaScript's undefined, where a string is expected
Undefined == "<undefined>"

\* args objects: each key's value is given by its JSON type
ArgsGood == [x |-> "number", y |-> "number"]
ArgsBadType == [x |-> "string", y |-> "number"]
ArgsMissing == [y |-> "number"]
ArgsSet == {ArgsGood, ArgsBadType, ArgsMissing}

\* the property names of the "xy" schema, in declaration order
SchemaKeys == <<"x", "y">>

\* what a handler can throw or reject with
ErrBoom == [nullish |-> FALSE, message |-> <<"boom">>]
ErrEmpty == [nullish |-> FALSE, message |-> <<>>]
ErrNull == [nullish |-> TRUE, message |-> <<>>]
ErrVals == {ErrBoom, ErrEmpty, ErrNull}

\* a handler invocation that does not throw synchronously
NoThrow == [nullish |-> FALSE, message |-> <<"<no throw>">>]

-----------------------------------------------------------------------------
(* schema.js *)

\* the compiled validator function: the errors Ajv (allErrors) reports for data
\* under a schema; "any" is { type: 'object', additionalProperties: true }
AjvErrors(schema, data) ==
    LET required == IF schema = "xy" THEN SchemaKeys ELSE <<>>
        missing(k) == k \notin DOMAIN data
        wrong(k) == k \in DOMAIN data /\ data[k] # "number"
        reqErr(k) == [instancePath |-> "", missingProperty |-> k,
                      message |-> "must have required property '" \o k \o "'"]
        typeErr(k) == [instancePath |-> "/" \o k, missingProperty |-> Undefined,
                       message |-> "must be number"]
        F[i \in 0..Len(required)] ==
            IF i = 0 THEN <<>>
            ELSE IF missing(required[i]) THEN Append(F[i - 1], reqErr(required[i]))
                 ELSE F[i - 1]
        G[i \in 0..Len(required)] ==
            IF i = 0 THEN <<>>
            ELSE IF wrong(required[i]) THEN Append(G[i - 1], typeErr(required[i]))
                 ELSE G[i - 1]
    IN  F[Len(required)] \o G[Len(required)]

\* SchemaValidator.formatErrors
formatErrors(ajvErrors) ==
    [i \in 1..Len(ajvErrors) |->
        [path |-> IF ajvErrors[i].instancePath # "" THEN ajvErrors[i].instancePath
                  ELSE "root",
         property |-> ajvErrors[i].missingProperty,
         message |-> ajvErrors[i].message]]

\* SchemaValidator.validate: the formatted errors, <<>> when the data is valid
validate(vals, name, data) ==
    IF name \notin DOMAIN vals
    THEN << [path |-> Undefined, property |-> Undefined,
             message |-> "No validator found for schema '" \o name \o "'"] >>
    ELSE formatErrors(AjvErrors(vals[name], data))

\* one error of formatErrorMessage, without its path (a plausible slip)
FormatOneNoPath(error) ==
    <<error.message>>
    \o (IF error.property # Undefined THEN <<" (property: ", error.property, ")">>
        ELSE <<>>)

\* one error of formatErrorMessage: `${path || 'root'}: ${message}` and the property
FormatOne(error) ==
    <<IF error.path # Undefined THEN error.path ELSE "root", ": ", error.message>>
    \o (IF error.property # Undefined THEN <<" (property: ", error.property, ")">>
        ELSE <<>>)

\* formatErrorMessage: the errors' messages joined by '; '
formatErrorMessage(errors) ==
    LET J[i \in 0..Len(errors)] ==
            IF i = 0 THEN <<>>
            ELSE IF i = 1 THEN FormatOne(errors[1])
                 ELSE J[i - 1] \o <<"; ">> \o FormatOne(errors[i])
    IN  IF Len(errors) = 0 THEN <<"No validation errors">> ELSE J[Len(errors)]

-----------------------------------------------------------------------------
(* executor.js: executeSingle *)

\* an ExecutionResult { tool, result | error }: key says which of the two is
\* present, val is its value
ExecResult(tool, key, val) == [tool |-> tool, key |-> key, val |-> val]

\* the value a handler returns for its args
ReturnValue(fn, args) ==
    <<fn, "(">> \o [i \in 1..Len(SchemaKeys) |->
                       IF SchemaKeys[i] \in DOMAIN args THEN args[SchemaKeys[i]]
                       ELSE Undefined] \o <<")">>

\* states of the promise executeSingle returns
PromNone(tool) == [state |-> "none", fn |-> Undefined, res |-> ExecResult(tool, "none", <<>>)]
PromPending(tool, fn) == [state |-> "pending", fn |-> fn, res |-> ExecResult(tool, "none", <<>>)]
PromFulfilled(res) == [state |-> "fulfilled", fn |-> Undefined, res |-> res]
PromRejected(tool, message) ==
    [state |-> "rejected", fn |-> Undefined, res |-> ExecResult(tool, "thrown", message)]

\* the message of the TypeError raised by reading .message of null/undefined
TypeErrorMessage == <<"Cannot read properties of null (reading 'message')">>

\* JavaScript truthiness of result.error
Truthy(res) == res.key = "error" /\ res.val # <<>>

\* a set that keeps the entry a key already has (a plausible slip)
KeepEntry(reg, name, entry) ==
    [k \in DOMAIN reg \cup {name} |-> IF k \in DOMAIN reg THEN reg[k] ELSE entry]

\* registry.set / metadata updates
SetEntry(reg, name, entry) ==
    [k \in DOMAIN reg \cup {name} |-> IF k = name THEN entry ELSE reg[k]]

\* the catch block without its check that the tool exists: the metadata of
\* a missing registration is read (a plausible slip)
CatchNoCheck(reg, toolCall, e) ==
    IF toolCall.tool \notin DOMAIN reg
    THEN [reg |-> reg, prom |-> PromRejected(toolCall.tool, TypeErrorMessage),
          emitted |-> <<>>]
    ELSE LET counted == SetEntry(reg, toolCall.tool,
                            [reg[toolCall.tool] EXCEPT !.errorCount = @ + 1])
         IN  IF e.nullish
             THEN [reg |-> counted, prom |-> PromRejected(toolCall.tool, TypeErrorMessage),
                   emitted |-> <<>>]
             ELSE [reg |-> SetEntry(counted, toolCall.tool,
                               [counted[toolCall.tool] EXCEPT !.lastError =
                                    [set |-> TRUE, message |-> e.message]]),
                   prom |-> PromFulfilled(ExecResult(toolCall.tool, "error", e.message)),
                   emitted |-> <<"error">>]

\* the catch block counting the error once more where it records lastError
\* (a plausible slip)
CatchCountsTwice(reg, toolCall, e) ==
    LET exists == toolCall.tool \in DOMAIN reg
        counted == IF exists
                   THEN SetEntry(reg, toolCall.tool,
                            [reg[toolCall.tool] EXCEPT !.errorCount = @ + 1])
                   ELSE reg
    IN  IF e.nullish
        THEN [reg |-> counted, prom |-> PromRejected(toolCall.tool, TypeErrorMessage),
              emitted |-> <<>>]
        ELSE [reg |-> IF exists
                      THEN SetEntry(counted, toolCall.tool,
                               [counted[toolCall.tool] EXCEPT
                                    !.errorCount = @ + 1,
                                    !.lastError = [set |-> TRUE, message |-> e.message]])
                      ELSE reg,
              prom |-> PromFulfilled(ExecResult(toolCall.tool, "error", e.message)),
              emitted |-> <<"error">>]

\* the catch block of executeSingle, lines 147-181, run on the error value e;
\* emitted lists the lifecycle events it emits for the execution's callId
CatchBlock(reg, toolCall, e) ==
    LET exists == toolCall.tool \in DOMAIN reg
        counted == IF exists
                   THEN SetEntry(reg, toolCall.tool,
                            [reg[toolCall.tool] EXCEPT !.errorCount = @ + 1])
                   ELSE reg
    IN  IF e.nullish
        THEN \* error.message raises a TypeError inside the catch block
             [reg |-> counted, prom |-> PromRejected(toolCall.tool, TypeErrorMessage),
              emitted |-> <<>>]
        ELSE [reg |-> IF exists
                      THEN SetEntry(counted, toolCall.tool,
                               [counted[toolCall.tool] EXCEPT !.lastError =
                                    [set |-> TRUE, message |-> e.message]])
                      ELSE reg,
              prom |-> PromFulfilled(ExecResult(toolCall.tool, "error", e.message)),
              emitted |-> <<"error">>]

\* an Error object with the given message
ErrorOf(message) == [nullish |-> FALSE, message |-> message]

\* executeSingle without the validation step (a plausible slip)
BeginNoValidation(reg, vals, toolCall, thrown) ==
    IF toolCall.tool \notin DOMAIN reg
    THEN CatchBlock(reg, toolCall, ErrorOf(<<"Tool '", toolCall.tool, "' not found">>))
         @@ [invoked |-> FALSE]
    ELSE LET called == SetEntry(reg, toolCall.tool,
                           [reg[toolCall.tool] EXCEPT !.callCount = @ + 1,
                                                      !.lastCalled = "set"])
         IN  IF thrown = NoThrow
             THEN [reg |-> called,
                   prom |-> PromPending(toolCall.tool, reg[toolCall.tool].fn),
                   emitted |-> <<"call">>,
                   invoked |-> TRUE]
             ELSE LET c == CatchBlock(called, toolCall, thrown)
                  IN  [c EXCEPT !.emitted = <<"call">> \o @] @@ [invoked |-> TRUE]

\* executeSingle counting the call as soon as the tool is found, before the
\* validation (a plausible slip)
BeginCountsFirst(reg, vals, toolCall, thrown) ==
    IF toolCall.tool \notin DOMAIN reg
    THEN CatchBlock(reg, toolCall, ErrorOf(<<"Tool '", toolCall.tool, "' not found">>))
         @@ [invoked |-> FALSE]
    ELSE LET errors == validate(vals, toolCall.tool, toolCall.args)
             called == SetEntry(reg, toolCall.tool,
                           [reg[toolCall.tool] EXCEPT !.callCount = @ + 1,
                                                      !.lastCalled = "set"])
         IN  IF errors # <<>>
             THEN CatchBlock(called, toolCall,
                      ErrorOf(<<"Validation failed: ">> \o formatErrorMessage(errors)))
                  @@ [invoked |-> FALSE]
             ELSE IF thrown = NoThrow
                  THEN [reg |-> called,
                        prom |-> PromPending(toolCall.tool, reg[toolCall.tool].fn),
                        emitted |-> <<"call">>,
                        invoked |-> TRUE]
                  ELSE LET c == CatchBlock(called, toolCall, thrown)
                       IN  [c EXCEPT !.emitted = <<"call">> \o @] @@ [invoked |-> TRUE]

\* executeSingle from its call to its first suspension, lines 90-123: lookup,
\* validation, metadata, and the synchronous part of the handler, which throws
\* `thrown` or returns (a value or a promise).  Yields the registry, the
\* promise's state, the events emitted and whether the handler was invoked.
ExecuteSingleBegin(reg, vals, toolCall, thrown) ==
    IF toolCall.tool \notin DOMAIN reg
    THEN CatchBlock(reg, toolCall, ErrorOf(<<"Tool '", toolCall.tool, "' not found">>))
         @@ [invoked |-> FALSE]
    ELSE LET errors == validate(vals, toolCall.tool, toolCall.args)
         IN  IF errors # <<>>
             THEN CatchBlock(reg, toolCall,
                      ErrorOf(<<"Validation failed: ">> \o formatErrorMessage(errors)))
                  @@ [invoked |-> FALSE]
             ELSE LET called == SetEntry(reg, toolCall.tool,
                                    [reg[toolCall.tool] EXCEPT !.callCount = @ + 1,
                                                               !.lastCalled = "set"])
                  IN  IF thrown = NoThrow
                      THEN [reg |-> called,
                            prom |-> PromPending(toolCall.tool, reg[toolCall.tool].fn),
                            emitted |-> <<"call">>,
                            invoked |-> TRUE]
                      ELSE LET c == CatchBlock(called, toolCall, thrown)
                           IN  [c EXCEPT !.emitted = <<"call">> \o @]
                               @@ [invoked |-> TRUE]

\* executeSingle from the handler's settlement on, lines 123-181: the awaited
\* promise fulfils (out = NoThrow) or rejects with out
ExecuteSingleSettle(reg, toolCall, fn, out) ==
    IF out = NoThrow
    THEN [reg |-> reg,
          prom |-> PromFulfilled(ExecResult(toolCall.tool, "result",
                                            ReturnValue(fn, toolCall.args))),
          emitted |-> <<"result">>]
    ELSE CatchBlock(reg, toolCall, out)

-----------------------------------------------------------------------------
(* executor.js: the registry *)

EmptyMap == [k \in {} |-> Undefined]

\* a name that is not a string, something that is not a function, a schema
\* that Ajv refuses to compile
NonString == "<non-string>"
NotAFunction == "<not a function>"
BadSchema == "<bad schema>"

NameInputs == ToolNames \cup {"", "  ", " add ", NonString}

\* String.prototype.trim on the names used
Trim(name) == IF name = " add " THEN "add" ELSE IF name = "  " THEN "" ELSE name

\* the entry register stores, lines 55-67
NewEntry(fn, schema) ==
    [fn |-> fn, schema |-> schema, callCount |-> 0, errorCount |-> 0,
     lastCalled |-> "null", lastError |-> [set |-> FALSE, message |-> <<>>]]

\* register without the check of the schema (a plausible slip)
RegisterOkAnySchema(name, fn, schema) ==
    /\ name # NonString
    /\ Trim(name) # ""
    /\ fn # NotAFunction

\* whether register accepts its arguments, lines 30-52
RegisterOk(name, fn, schema) ==
    /\ name # NonString
    /\ Trim(name) # ""
    /\ fn # NotAFunction
    /\ schema # BadSchema

\* what a synchronous operation of the registry returned (kind "return") or
\* raised (kind "throw") for its arguments args: val is a boolean, a message
\* or a list of names, info the registrations it reported
Ret(op, args, kind, val, info) ==
    [op |-> op, args |-> args, kind |-> kind, val |-> val, info |-> info]

\* no such operation was the last thing to run
NoRet == Ret("none", <<>>, "return", <<>>, <<>>)

\* the message of the Error register throws for its arguments, lines 30-52
RegisterError(name, fn, schema) ==
    IF name = NonString \/ Trim(name) = "" THEN <<"Tool name must be a non-empty string">>
    ELSE IF fn = NotAFunction THEN <<"Tool function must be a function">>
    ELSE <<"Invalid schema: ">>
         \o formatErrorMessage(<<[path |-> Undefined, property |-> Undefined,
                                  message |-> "Invalid schema: " \o schema]>>)

\* register(name, fn, { schema }), lines 27-83
Register(name, fn, schema) ==
    /\ IF RegisterOk(name, fn, schema)
       THEN /\ validators' = SetEntry(validators, Trim(name), schema)
            /\ registry' = SetEntry(registry, Trim(name), NewEntry(fn, schema))
            /\ ret' = Ret("register", <<name, fn, schema>>, "return", <<"true">>, <<>>)
       ELSE /\ UNCHANGED <<registry, validators>>
            /\ ret' = IF strict
                      THEN Ret("register", <<name, fn, schema>>, "throw",
                               RegisterError(name, fn, schema), <<>>)
                      ELSE Ret("register", <<name, fn, schema>>, "return",
                               <<"false">>, <<>>)
    /\ UNCHANGED <<strict, call, promises, hist, aside>>

\* Map.delete
Remove(map, name) == [k \in DOMAIN map \ {name} |-> map[k]]

\* unregister(name), lines 409-419
Unregister(name) ==
    /\ registry' = Remove(registry, name)
    /\ validators' = IF name \in DOMAIN registry THEN Remove(validators, name)
                     ELSE validators
    /\ ret' = Ret("unregister", <<name>>, "return",
                  IF name \in DOMAIN registry THEN <<"true">> ELSE <<"false">>, <<>>)
    /\ UNCHANGED <<strict, call, promises, hist, aside>>

\* clear(), lines 424-431
Clear ==
    /\ registry' = EmptyMap
    /\ validators' = EmptyMap
    /\ ret' = Ret("clear", <<>>, "return", <<>>, <<>>)
    /\ UNCHANGED <<strict, call, promises, hist, aside>>

\* setStrict(enabled), lines 437-440
SetStrict(enabled) ==
    /\ strict' = enabled
    /\ ret' = Ret("setStrict", <<>>, "return", <<>>, <<>>)
    /\ UNCHANGED <<registry, validators, call, promises, hist, regOps, aside>>

\* what a query leaves alone: everything but its return value
Reads == UNCHANGED <<registry, validators, strict, call, promises, hist, regOps, aside>>

\* hasTool(name), line 328
HasTool(name) ==
    /\ ret' = Ret("hasTool", <<name>>, "return",
                  IF name \in DOMAIN registry THEN <<"true">> ELSE <<"false">>, <<>>)
    /\ Reads

\* the tool information getToolInfo and listTools build from a registration,
\* lines 339-345 and 356-362: name, schema and a copy of the metadata
ToolInfo(name, info) ==
    [name |-> name, schema |-> info.schema, callCount |-> info.callCount,
     errorCount |-> info.errorCount, lastCalled |-> info.lastCalled,
     lastError |-> info.lastError]

\* getToolInfo(name), lines 337-346; null is the empty list
GetToolInfo(name) ==
    /\ ret' = Ret("getToolInfo", <<name>>, "return", <<>>,
                  IF name \in DOMAIN registry THEN <<ToolInfo(name, registry[name])>>
                  ELSE <<>>)
    /\ Reads

\* a.name.localeCompare(b.name) < 0 on the names a registry can hold
NameRank == <<"add", "echo">>
Before(a, b) ==
    (CHOOSE i \in DOMAIN NameRank : NameRank[i] = a)
        < (CHOOSE i \in DOMAIN NameRank : NameRank[i] = b)

\* the array left as it was built (a plausible slip)
Unsorted(tools) == tools

\* Array.prototype.sort with the comparator of line 365: the tools by name
RECURSIVE SortByName(_)
SortByName(tools) ==
    IF Len(tools) <= 1 THEN tools
    ELSE LET m == CHOOSE i \in DOMAIN tools :
                      \A j \in DOMAIN tools : ~Before(tools[j].name, tools[i].name)
             rest == [k \in 1..(Len(tools) - 1) |->
                         IF k < m THEN tools[k] ELSE tools[k + 1]]
         IN  <<tools[m]>> \o SortByName(rest)

\* the orders in which a Map of these keys can iterate: insertion order,
\* which the registry does not record, so every order is taken
Orders(names) ==
    {o \in [1..Cardinality(names) -> names] : \A n \in names : \E i \in DOMAIN o : o[i] = n}

\* what listTools() returns for an iteration order, lines 352-366
ListOf(reg, order) ==
    SortByName([i \in DOMAIN order |-> ToolInfo(order[i], reg[order[i]])])

\* listTools()
ListTools ==
    /\ \E order \in Orders(DOMAIN registry) :
           LET tools == ListOf(registry, order)
           IN  ret' = Ret("listTools", <<>>, "return",
                          [i \in DOMAIN tools |-> tools[i].name], tools)
    /\ Reads

\* sum of a field over a list of tools (Array.prototype.reduce)
RECURSIVE SumOf(_, _)
SumOf(tools, field) ==
    IF tools = <<>> THEN 0 ELSE tools[1][field] + SumOf(Tail(tools), field)

\* getStats(), lines 446-463: the counts, and the tools it lists
GetStats ==
    /\ \E order \in Orders(DOMAIN registry) :
           LET tools == ListOf(registry, order)
           IN  ret' = Ret("getStats", <<>>, "return",
                          [i \in DOMAIN tools |-> tools[i].name],
                          <<[toolCount |-> Len(tools),
                             totalCalls |-> SumOf(tools, "callCount"),
                             totalErrors |-> SumOf(tools, "errorCount")]>>)
    /\ Reads

\* the lines describeTools() writes for a tool, lines 381-398: the name, and
\* the parameters and required properties of a schema that declares some
DescribeOne(tool) ==
    <<"**", tool.name, "**">>
    \o (IF tool.schema = "xy"
        THEN <<"\n  Parameters: ", "x, y", "\n  Required: ", "x, y">>
        ELSE <<>>)

RECURSIVE JoinDescriptions(_)
JoinDescriptions(tools) ==
    IF Len(tools) = 0 THEN <<>>
    ELSE IF Len(tools) = 1 THEN DescribeOne(tools[1])
    ELSE DescribeOne(tools[1]) \o <<"\n\n">> \o JoinDescriptions(Tail(tools))

\* describeTools(), lines 372-402
DescribeTools ==
    /\ \E order \in Orders(DOMAIN registry) :
           LET tools == ListOf(registry, order)
           IN  ret' = Ret("describeTools", <<>>, "return",
                          IF Len(tools) = 0 THEN <<"No tools registered.">>
                          ELSE JoinDescriptions(tools), <<>>)
    /\ Reads

-----------------------------------------------------------------------------
(* executor.js: execute, executeSequential, executeParallel, executeDirect *)

Min(a, b) == IF a < b THEN a ELSE b

\* slice with its end one too low (a plausible slip)
SliceShort(arr, from, to) == SubSeq(arr, from + 1, Min(to, Len(arr)) - 1)

\* the index Array.prototype.slice makes of a bound n for an array of len
\* elements: a negative bound counts from the end
SliceIndex(n, len) == IF n < 0 THEN (IF len + n < 0 THEN 0 ELSE len + n) ELSE Min(n, len)

\* Array.prototype.slice(from, to) with 0-based bounds
Slice(arr, from, to) ==
    SubSeq(arr, SliceIndex(from, Len(arr)) + 1, SliceIndex(to, Len(arr)))

\* no batching: every toolCall in one batch (a plausible slip)
BatchLoopAll(toolCalls, maxConcurrency, i, batches) == <<toolCalls>>

\* the batching loop of executeParallel, lines 266-269
RECURSIVE BatchLoop(_, _, _, _)
BatchLoop(toolCalls, maxConcurrency, i, batches) ==
    IF i < Len(toolCalls)
    THEN BatchLoop(toolCalls, maxConcurrency, i + maxConcurrency,
                   Append(batches, Slice(toolCalls, i, i + maxConcurrency)))
    ELSE batches

\* batching with an off-by-one slice end (a plausible slip)
RECURSIVE BatchLoopWide(_, _, _, _)
BatchLoopWide(toolCalls, maxConcurrency, i, batches) ==
    IF i < Len(toolCalls)
    THEN BatchLoopWide(toolCalls, maxConcurrency, i + maxConcurrency + 1,
                       Append(batches, Slice(toolCalls, i, i + maxConcurrency + 1)))
    ELSE batches

BatchesWide(toolCalls, maxConcurrency) ==
    BatchLoopWide(toolCalls, maxConcurrency, 0, <<>>)

Batches(toolCalls, maxConcurrency) == BatchLoop(toolCalls, maxConcurrency, 0, <<>>)

\* the toolCall objects of an array: id is the object's identity, its place in
\* the array passed to execute
Tagged(records) ==
    [i \in 1..Len(records) |-> [id |-> i, tool |-> records[i].tool, args |-> records[i].args]]

\* the records passed to the execution calls
Records == {[tool |-> "add", args |-> ArgsGood],
            [tool |-> "add", args |-> ArgsBadType],
            [tool |-> "echo", args |-> ArgsMissing]}

RecordSeqs == UNION {[1..n -> Records] : n \in 0..MaxCalls}

Idle == [op |-> "none", pc |-> "idle", toolCalls |-> <<>>, continueOnError |-> TRUE,
         maxConcurrency |-> 1, batches |-> <<>>, i |-> 1, results |-> <<>>,
         status |-> "none"]

NewHist == [begun |-> FALSE, found |-> FALSE, valid |-> FALSE, fields |-> {},
            invoked |-> FALSE, settled |-> FALSE, failed |-> FALSE, events |-> <<>>]

\* the fields of data that a schema rejects
FailingFields(schema, data) ==
    {k \in {"x", "y"} :
        \E i \in DOMAIN AjvErrors(schema, data) :
            LET e == AjvErrors(schema, data)[i]
            IN  e.instancePath = "/" \o k \/ e.missingProperty = k}

\* the history entry of a toolCall whose executeSingle has run to its first
\* suspension with outcome b, on registry reg
BegunHist(reg, toolCall, b) ==
    LET found == toolCall.tool \in DOMAIN reg
    IN  [begun |-> TRUE,
         found |-> found,
         valid |-> found /\ AjvErrors(reg[toolCall.tool].schema, toolCall.args) = <<>>,
         fields |-> IF found THEN FailingFields(reg[toolCall.tool].schema, toolCall.args)
                    ELSE {},
         invoked |-> b.invoked,
         settled |-> b.invoked /\ b.prom.state # "pending",
         failed |-> b.prom.state # "pending",
         events |-> b.emitted]

\* the callId and StreamingParser models, not started
NoIds == [now |-> 0, issued |-> <<>>]
\* new StreamingParser(), lines 292-295
NewParser == [buffer |-> <<>>, foundCalls |-> <<>>]
NoStream == [text |-> <<>>, fed |-> 0, open |-> FALSE, buffer |-> <<>>,
             foundCalls |-> <<>>, returned |-> <<>>, fresh |-> NewParser,
             resets |-> 0, before |-> <<>>]

\* new MCPMessageHandler(executor), lines 28-47 of part_000: clientInfo null
\* is <<>>, request is the id of the tools/call request being executed
NewHandler == [initialized |-> FALSE, clientInfo |-> <<>>, request |-> <<>>]

Init ==
    /\ registry = EmptyMap
    /\ validators = EmptyMap
    /\ strict = FALSE
    /\ call = Idle
    /\ promises = <<>>
    /\ hist = <<>>
    /\ regOps = 0
    /\ ret = NoRet
    /\ ids = NoIds
    /\ stream = NoStream
    /\ peer = EmptyMap
    /\ mcp = NewHandler

CanStart == call.pc = "idle"

\* what the synchronous part of a handler can do: return (a value or a
\* promise), or throw; a synchronous throw is represented by an Error with
\* a message, the other thrown values are covered by the rejections below,
\* which reach the same catch block
SyncOutcomes == {NoThrow, ErrBoom}

\* batch.map(toolCall => this.executeSingle(toolCall)...), line 274 (and the
\* single call of line 227): executeSingle is begun for each toolCall in order,
\* each on the registry the one before left; stamp counts the promises settled
RECURSIVE LaunchAll(_, _, _, _, _, _)
LaunchAll(reg, vals, batch, thrown, k, stamp) ==
    IF k > Len(batch)
    THEN [reg |-> reg, begun |-> <<>>]
    ELSE LET b == ExecuteSingleBegin(reg, vals, batch[k], thrown[k])
             done == b.prom.state # "pending"
             rest == LaunchAll(b.reg, vals, batch, thrown, k + 1,
                               IF done THEN stamp + 1 ELSE stamp)
         IN  [reg |-> rest.reg,
              begun |-> <<[id |-> batch[k].id,
                           prom |-> b.prom @@ [at |-> IF done THEN stamp + 1 ELSE 0],
                           hist |-> BegunHist(reg, batch[k], b)]>> \o rest.begun]

\* the number of promises of this call that have settled
Settled(proms) == Cardinality({i \in DOMAIN proms : proms[i].state \in {"fulfilled", "rejected"}})

\* promises / hist with the launched toolCalls' entries replaced
WithBegun(f, begun, field) ==
    [i \in DOMAIN f |->
        IF \E k \in DOMAIN begun : begun[k].id = i
        THEN (LET k == CHOOSE k \in DOMAIN begun : begun[k].id = i IN begun[k][field])
        ELSE f[i]]

\* the error result built by the catch of line 235 and the .catch of line 275
ErrorResult(toolCall, message) == ExecResult(toolCall.tool, "error", message)

\* what awaiting a settled executeSingle promise yields to execute*: its
\* ExecutionResult, or the error result built from the rejection
Awaited(toolCall, prom) ==
    IF prom.state = "rejected" THEN ErrorResult(toolCall, prom.res.val) ELSE prom.res

\* the two ways a call ends
Returned(c, results) == [c EXCEPT !.pc = "done", !.status = "resolved", !.results = results]
Raised(c, results) == [c EXCEPT !.pc = "done", !.status = "rejected", !.results = results]

\* the state of a call that launches `batch` next: the shared tail of the start
\* and resume actions
LaunchNext(c, batch, thrown, proms, h) ==
    LET l == LaunchAll(registry, validators, batch, thrown, 1, Settled(proms))
    IN  /\ registry' = l.reg
        /\ promises' = WithBegun(proms, l.begun, "prom")
        /\ hist' = WithBegun(h, l.begun, "hist")
        /\ call' = [c EXCEPT !.pc = "await"]

FreshPromises(toolCalls) ==
    [i \in 1..Len(toolCalls) |-> PromNone(toolCalls[i].tool) @@ [at |-> 0]]

FreshHist(toolCalls) == [i \in 1..Len(toolCalls) |-> NewHist]

\* executeSingle(toolCall) called directly, up to its first suspension
StartSingle(record, thrown) ==
    /\ CanStart
    /\ LET tcs == Tagged(<<record>>)
       IN  LaunchNext([Idle EXCEPT !.op = "single", !.toolCalls = tcs],
                      tcs, <<thrown>>, FreshPromises(tcs), FreshHist(tcs))
    /\ ret' = NoRet
    /\ UNCHANGED <<validators, strict, regOps, aside>>

\* executeDirect(name, args), line 314, up to its first suspension
StartDirect(record, thrown) ==
    /\ CanStart
    /\ LET tcs == Tagged(<<record>>)
       IN  LaunchNext([Idle EXCEPT !.op = "direct", !.toolCalls = tcs],
                      tcs, <<thrown>>, FreshPromises(tcs), FreshHist(tcs))
    /\ ret' = NoRet
    /\ UNCHANGED <<validators, strict, regOps, aside>>

\* execute(toolCalls, { parallel, continueOnError, maxConcurrency }), lines
\* 190-214, with the start of executeSequential or executeParallel up to the
\* first suspension
StartExecute(records, parallel, continueOnError, maxConcurrency) ==
    /\ CanStart
    /\ LET tcs == Tagged(records)
           c == [Idle EXCEPT !.op = IF parallel THEN "par" ELSE "seq",
                             !.toolCalls = tcs,
                             !.continueOnError = continueOnError,
                             !.maxConcurrency = IF parallel THEN maxConcurrency ELSE 1,
                             !.batches = IF parallel THEN Batches(tcs, maxConcurrency)
                                         ELSE <<>>]
       IN  IF Len(records) = 0
           THEN /\ call' = Returned(c, <<>>)
                /\ promises' = <<>>
                /\ hist' = <<>>
                /\ UNCHANGED registry
           ELSE LET batch == IF parallel THEN c.batches[1] ELSE <<tcs[1]>>
                IN  \E thrown \in [1..Len(batch) -> SyncOutcomes] :
                        LaunchNext(c, batch, thrown, FreshPromises(tcs), FreshHist(tcs))
    /\ ret' = NoRet
    /\ UNCHANGED <<validators, strict, regOps, aside>>

\* what a handler's promise can settle with: fulfil, or reject with an
\* Error whose message is empty, or with null / undefined
AsyncOutcomes == {NoThrow, ErrEmpty, ErrNull}

\* a handler in flight settles, and its executeSingle runs to its end
HandlerSettle(id, out) ==
    /\ id \in DOMAIN promises
    /\ promises[id].state = "pending"
    /\ LET s == ExecuteSingleSettle(registry, call.toolCalls[id], promises[id].fn, out)
       IN  /\ registry' = s.reg
           /\ promises' = [promises EXCEPT ![id] = s.prom @@ [at |-> Settled(promises) + 1]]
           /\ hist' = [hist EXCEPT ![id].settled = TRUE, ![id].failed = (out # NoThrow),
                                   ![id].events = @ \o s.emitted]
    /\ ret' = NoRet
    /\ UNCHANGED <<validators, strict, call, regOps, aside>>

\* executeSingle's caller resumes: the returned promise has settled
SingleReturn ==
    /\ call.op = "single" /\ call.pc = "await"
    /\ promises[1].state \in {"fulfilled", "rejected"}
    /\ call' = IF promises[1].state = "fulfilled"
               THEN Returned(call, <<promises[1].res>>)
               ELSE Raised(call, <<promises[1].res>>)
    /\ ret' = NoRet
    /\ UNCHANGED <<registry, validators, strict, promises, hist, regOps, aside>>

\* executeDirect resumes, lines 314-320
DirectReturn ==
    /\ call.op = "direct" /\ call.pc = "await"
    /\ promises[1].state \in {"fulfilled", "rejected"}
    /\ LET res == promises[1].res
       IN  call' = IF promises[1].state = "rejected"
                   THEN Raised(call, <<res>>)
                   ELSE IF Truthy(res)
                        THEN Raised(call, <<ExecResult(res.tool, "thrown", res.val)>>)
                        ELSE Returned(call,
                                 <<ExecResult(res.tool, "value",
                                       IF res.key = "result" THEN res.val
                                       ELSE <<Undefined>>)>>)
    /\ ret' = NoRet
    /\ UNCHANGED <<registry, validators, strict, promises, hist, regOps, aside>>

\* executeSingle called without await (a plausible slip)
SeqReadyNoAwait(c, proms) == TRUE

\* the await of line 227 lets executeSequential go on
SeqReady(c, proms) == proms[c.i].state \in {"fulfilled", "rejected"}

\* executeSequential resumes after the await of line 227: push, then stop,
\* return, or begin the next executeSingle (lines 225-255)
SeqResume ==
    /\ call.op = "seq" /\ call.pc = "await"
    /\ SeqReady(call, promises)
    /\ LET tc == call.toolCalls[call.i]
           prom == promises[call.i]
           result == Awaited(tc, prom)
           results == Append(call.results, result)
           stop == ~call.continueOnError
                   /\ (prom.state = "rejected" \/ Truthy(result))
       IN  IF stop \/ call.i = Len(call.toolCalls)
           THEN /\ call' = Returned(call, results)
                /\ UNCHANGED <<registry, promises, hist>>
           ELSE \E thrown \in SyncOutcomes :
                    LaunchNext([call EXCEPT !.i = @ + 1, !.results = results],
                               <<call.toolCalls[call.i + 1]>>, <<thrown>>, promises, hist)
    /\ ret' = NoRet
    /\ UNCHANGED <<validators, strict, regOps, aside>>

\* the values in the order in which the promises settled (a plausible slip)
CollectByCompletion(batch, proms) ==
    [k \in 1..Len(batch) |->
        LET b == CHOOSE b \in DOMAIN batch :
                     Cardinality({a \in DOMAIN batch :
                         proms[batch[a].id].at < proms[batch[b].id].at}) = k - 1
        IN  Awaited(batch[b], proms[batch[b].id])]

\* Promise.all(batchPromises), line 287: the values in the promises' order
CollectBatch(batch, proms) ==
    [k \in 1..Len(batch) |-> Awaited(batch[k], proms[batch[k].id])]

\* executeParallel resumes after the await of line 287: push the batch's
\* results, then stop, return, or launch the next batch (lines 273-304)
ParResume ==
    /\ call.op = "par" /\ call.pc = "await"
    /\ LET batch == call.batches[call.i]
           batchResults == CollectBatch(batch, promises)
           allResults == call.results \o batchResults
           stop == ~call.continueOnError
                   /\ \E k \in DOMAIN batchResults : Truthy(batchResults[k])
       IN  /\ \A k \in DOMAIN batch :
                  promises[batch[k].id].state \in {"fulfilled", "rejected"}
           /\ IF stop \/ call.i = Len(call.batches)
              THEN /\ call' = Returned(call, allResults)
                   /\ UNCHANGED <<registry, promises, hist>>
              ELSE LET next == call.batches[call.i + 1]
                   IN  \E thrown \in [1..Len(next) -> SyncOutcomes] :
                           LaunchNext([call EXCEPT !.i = @ + 1, !.results = allResults],
                                      next, thrown, promises, hist)
    /\ ret' = NoRet
    /\ UNCHANGED <<validators, strict, regOps, aside>>

\* a registry operation made before the call is started
SetUp == call.pc = "idle" /\ regOps' = regOps

\* a registry operation made by other code once the call has started, while
\* it is suspended or after it has returned
Meanwhile == call.pc # "idle" /\ regOps < MaxRegOps /\ regOps' = regOps + 1

\* the (name, schema) pairs tools are registered with
RegInputs == {<<"add", "xy">>, <<"echo", "xy">>, <<"echo", "any">>}

Next ==
    \/ \E r \in RegInputs, fn \in Handlers : Register(r[1], fn, r[2]) /\ SetUp
    \/ \E name \in ToolNames : Unregister(name) /\ SetUp
    \/ Clear /\ SetUp
    \/ \E record \in Records, thrown \in SyncOutcomes : StartSingle(record, thrown)
    \/ \E record \in Records, thrown \in SyncOutcomes : StartDirect(record, thrown)
    \/ \E records \in RecordSeqs, parallel \in BOOLEAN, continueOnError \in BOOLEAN,
          maxConcurrency \in 1..MaxConc :
           StartExecute(records, parallel, continueOnError, maxConcurrency)
    \/ \E id \in DOMAIN promises, out \in AsyncOutcomes : HandlerSettle(id, out)
    \/ SingleReturn
    \/ DirectReturn
    \/ SeqResume
    \/ ParResume

Spec == Init /\ [][Next]_vars

\* the same, with registry operations made while the call is in progress
NextMid ==
    \/ Next
    \/ \E r \in RegInputs, fn \in Handlers : Register(r[1], fn, r[2]) /\ Meanwhile
    \/ \E name \in ToolNames : Unregister(name) /\ Meanwhile
    \/ Clear /\ Meanwhile

SpecMid == Init /\ [][NextMid]_vars

\* a registry operation made at any time, not counted
Anytime == regOps' = regOps

\* the names the registry is asked about
QueryNames == ToolNames \cup {" add "}

\* the registry on its own: every operation on it, with valid and invalid
\* arguments, in both modes
NextApi ==
    \/ \E name \in NameInputs, fn \in Handlers \cup {NotAFunction},
          schema \in Schemas \cup {BadSchema} :
           Register(name, fn, schema) /\ Anytime
    \/ \E name \in QueryNames : Unregister(name) /\ Anytime
    \/ Clear /\ Anytime
    \/ \E enabled \in BOOLEAN : SetStrict(enabled)
    \/ \E name \in QueryNames : HasTool(name)
    \/ \E name \in QueryNames : GetToolInfo(name)
    \/ ListTools
    \/ GetStats
    \/ DescribeTools

SpecApi == Init /\ [][NextApi]_vars

\* the caller takes the outcome of its call and is ready to make the next
\* one, as long as no counter has reached MaxCount
NextCall ==
    /\ call.pc = "done"
    /\ \A n \in DOMAIN registry :
           registry[n].callCount < MaxCount /\ registry[n].errorCount < MaxCount
    /\ call' = Idle
    /\ promises' = <<>>
    /\ hist' = <<>>
    /\ ret' = NoRet
    /\ UNCHANGED <<registry, validators, strict, regOps, aside>>

\* the registrations made between and during repeated calls: a second
\* handler and schema for "add", and a register that fails
RunRegInputs == {<<"add", "h1", "xy">>, <<"add", "h2", "any">>,
                 <<"echo", "h1", "any">>, <<"add", NotAFunction, "xy">>}

\* executeSingle called again and again, with registry operations made at
\* any time, also while a handler is in flight
NextRuns ==
    \/ \E r \in RunRegInputs : Register(r[1], r[2], r[3]) /\ Anytime
    \/ \E name \in ToolNames : Unregister(name) /\ Anytime
    \/ Clear /\ Anytime
    \/ \E name \in ToolNames : GetToolInfo(name)
    \/ ListTools
    \/ GetStats
    \/ DescribeTools
    \/ \E record \in Records, thrown \in SyncOutcomes : StartSingle(record, thrown)
    \/ \E id \in DOMAIN promises, out \in AsyncOutcomes : HandlerSettle(id, out)
    \/ SingleReturn
    \/ NextCall

SpecRuns == Init /\ [][NextRuns]_vars

-----------------------------------------------------------------------------
(* executor.js: the batching loop of executeParallel, one iteration a step *)

\* The loop of lines 266-269 runs within one synchronous stretch; its
\* iterations are steps here so that a loop that does not end can be told
\* from one that does.  While call.pc = "batching", call.i is the loop's i.

\* the values of the maxConcurrency option: any integer the caller passes
ConcInputs == -1..MaxConc

\* execute(records, { parallel: true, continueOnError, maxConcurrency }),
\* lines 190-214 and 264-265, up to the loop
StartParallel(records, continueOnError, maxConcurrency) ==
    /\ CanStart
    /\ Len(records) > 0
    /\ LET tcs == Tagged(records)
       IN  /\ call' = [Idle EXCEPT !.op = "par", !.pc = "batching", !.toolCalls = tcs,
                                   !.continueOnError = continueOnError,
                                   !.maxConcurrency = maxConcurrency, !.i = 0]
           /\ promises' = FreshPromises(tcs)
           /\ hist' = FreshHist(tcs)
    /\ ret' = NoRet
    /\ UNCHANGED <<registry, validators, strict, regOps, aside>>

\* one iteration of the loop, lines 267-269
BatchStep ==
    /\ call.pc = "batching"
    /\ call.i < Len(call.toolCalls)
    /\ Len(call.batches) < MaxBatches
    /\ call' = [call EXCEPT
                   !.batches = Append(@, Slice(call.toolCalls, call.i,
                                               call.i + call.maxConcurrency)),
                   !.i = @ + call.maxConcurrency]
    /\ ret' = NoRet
    /\ UNCHANGED <<registry, validators, strict, promises, hist, regOps, aside>>

\* the loop has ended: the first batch is launched, lines 273-287
BatchesDone ==
    /\ call.pc = "batching"
    /\ ~(call.i < Len(call.toolCalls))
    /\ \E thrown \in [1..Len(call.batches[1]) -> SyncOutcomes] :
           LaunchNext([call EXCEPT !.i = 1], call.batches[1], thrown, promises, hist)
    /\ ret' = NoRet
    /\ UNCHANGED <<validators, strict, regOps, aside>>

\* the tools the parallel calls find
BatchRegInputs == {<<"add", "h1", "xy">>, <<"echo", "h1", "any">>}

NextBatch ==
    \/ \E r \in BatchRegInputs : Register(r[1], r[2], r[3]) /\ SetUp
    \/ \E records \in RecordSeqs, continueOnError \in BOOLEAN,
          maxConcurrency \in ConcInputs :
           StartParallel(records, continueOnError, maxConcurrency)
    \/ BatchStep
    \/ BatchesDone
    \/ \E id \in DOMAIN promises, out \in AsyncOutcomes : HandlerSettle(id, out)
    \/ ParResume

SpecBatch == Init /\ [][NextBatch]_vars

-----------------------------------------------------------------------------
(* executor.js and schema.js: two Executors of one process *)

\* Every Executor compiles into, validates with and removes from the one
\* schemaValidator that schema.js exports (line 274, imported at line 6 of
\* executor.js): `validators` is that object's map, `registry` the registry
\* of the Executor whose calls are followed, `peer` that of another one.

\* register(name, fn, { schema }) on the other Executor, lines 27-72
PeerRegister(name, fn, schema) ==
    /\ IF RegisterOk(name, fn, schema)
       THEN /\ validators' = SetEntry(validators, Trim(name), schema)
            /\ peer' = SetEntry(peer, Trim(name), NewEntry(fn, schema))
       ELSE UNCHANGED <<validators, peer>>
    /\ ret' = NoRet
    /\ UNCHANGED <<registry, strict, call, promises, hist, regOps, ids, stream, mcp>>

\* unregister(name) on the other Executor, lines 409-419
PeerUnregister(name) ==
    /\ peer' = Remove(peer, name)
    /\ validators' = IF name \in DOMAIN peer THEN Remove(validators, name)
                     ELSE validators
    /\ ret' = NoRet
    /\ UNCHANGED <<registry, strict, call, promises, hist, regOps, ids, stream, mcp>>

\* clear() on the other Executor, lines 424-431
PeerClear ==
    /\ peer' = EmptyMap
    /\ validators' = EmptyMap
    /\ ret' = NoRet
    /\ UNCHANGED <<registry, strict, call, promises, hist, regOps, ids, stream, mcp>>

\* the registrations made on the two Executors
SharedRegInputs == {<<"add", "h1", "xy">>, <<"echo", "h1", "any">>}
PeerRegInputs == {<<"add", "h2", "any">>, <<"add", NotAFunction, "any">>}

\* executeSingle called again and again on one Executor while registry
\* operations are made on it and on the other one
NextShared ==
    \/ \E r \in SharedRegInputs : Register(r[1], r[2], r[3]) /\ Anytime
    \/ \E name \in ToolNames : Unregister(name) /\ Anytime
    \/ Clear /\ Anytime
    \/ \E r \in PeerRegInputs : PeerRegister(r[1], r[2], r[3])
    \/ \E name \in ToolNames : PeerUnregister(name)
    \/ PeerClear
    \/ \E record \in Records, thrown \in SyncOutcomes : StartSingle(record, thrown)
    \/ \E id \in DOMAIN promises, out \in AsyncOutcomes : HandlerSettle(id, out)
    \/ SingleReturn
    \/ NextCall

SpecShared == Init /\ [][NextShared]_vars

-----------------------------------------------------------------------------
(* executor.js: the callId of an execution, lines 91-92 *)

\* the variables of the engine
engine == <<registry, validators, strict, call, promises, hist, regOps, ret, peer, mcp>>

\* Math.random().toString(36).substr(2, 5): up to five base-36 digits of a
\* random number; two of the values it can take
RandomSuffixes == {"k3f9z", "i"}

\* `${toolCall.tool}_${startTime}_${suffix}`
CallId(tool, startTime, suffix) == <<tool, "_", startTime, "_", suffix>>

\* a millisecond passes
Tick ==
    /\ ids.now < MaxNow
    /\ ids' = [ids EXCEPT !.now = @ + 1]
    /\ UNCHANGED <<engine, stream>>

\* executeSingle reads the clock and the random number generator and builds
\* the callId that its ExecutionResult and its events carry
IssueCallId(tool, suffix) ==
    /\ Len(ids.issued) < MaxIssued
    /\ ids' = [ids EXCEPT !.issued = Append(@, CallId(tool, ids.now, suffix))]
    /\ UNCHANGED <<engine, stream>>

NextIds ==
    \/ Tick
    \/ \E tool \in ToolNames, suffix \in RandomSuffixes : IssueCallId(tool, suffix)

SpecIds == Init /\ [][NextIds]_vars

-----------------------------------------------------------------------------
(* The parser: parse and StreamingParser *)

\* A text is a sequence of JSON tokens: punctuation, string literals, number
\* literals, the literal null, line breaks, and, where a text was cut inside
\* a string literal, the string left open at its end or the rest of the
\* string, with its closing quote, at its beginning.
Punct(v) == [k |-> "p", v |-> v]
Str(v) == [k |-> "s", v |-> v]
Num(v) == [k |-> "n", v |-> v]
OpenStr(v) == [k |-> "o", v |-> v]
RestStr(v) == [k |-> "t", v |-> v]
NullLit == [k |-> "l", v |-> "null"]
NewLine == [k |-> "w", v |-> "\n"]
LB == Punct("{")
RB == Punct("}")
Colon == Punct(":")
Comma == Punct(",")

\* {"tool_call":{"tool":"add","args":{"x":1,"y":2}}}
NestedText ==
    <<LB, Str("tool_call"), Colon, LB, Str("tool"), Colon, Str("add"), Comma,
      Str("args"), Colon, LB, Str("x"), Colon, Num("1"), Comma, Str("y"), Colon,
      Num("2"), RB, RB, RB>>

\* {"tool":"add","args":{"x":1,"y":2}}
DirectText ==
    <<LB, Str("tool"), Colon, Str("add"), Comma, Str("args"), Colon, LB, Str("x"),
      Colon, Num("1"), Comma, Str("y"), Colon, Num("2"), RB, RB>>

\* {"tool":"echo","args":{"y":2}}
ShortText ==
    <<LB, Str("tool"), Colon, Str("echo"), Comma, Str("args"), Colon, LB, Str("y"),
      Colon, Num("2"), RB, RB>>

\* "key":value
Member(key, val) == <<Str(key), Colon>> \o val

\* {"tool":tool,"args":args}
Direct(tool, args) ==
    <<LB>> \o Member("tool", <<Str(tool)>>) \o <<Comma>> \o Member("args", args) \o <<RB>>

\* {"tool_call":{"tool":tool,"args":args}}
Nested(tool, args) == <<LB>> \o Member("tool_call", Direct(tool, args)) \o <<RB>>

\* {"a":first,"b":second}
Both(first, second) ==
    <<LB>> \o Member("a", first) \o <<Comma>> \o Member("b", second) \o <<RB>>

\* {}, {"x":1}, {"x":1,"y":2}, {"y":2,"x":1}, {"x":null}
ArgsNone == <<LB, RB>>
ArgsX == <<LB>> \o Member("x", <<Num("1")>>) \o <<RB>>
ArgsXY ==
    <<LB>> \o Member("x", <<Num("1")>>) \o <<Comma>> \o Member("y", <<Num("2")>>) \o <<RB>>
ArgsYX ==
    <<LB>> \o Member("y", <<Num("2")>>) \o <<Comma>> \o Member("x", <<Num("1")>>) \o <<RB>>
ArgsNull == <<LB>> \o Member("x", <<NullLit>>) \o <<RB>>

\* {"tool":"add","args":{"x":null}}
NullText == Direct("add", ArgsNull)

\* {"a":{"tool":"add","args":{"x":1,"y":2}},"b":{"tool":"add","args":{"y":2,"x":1}}}
SwappedText == Both(Direct("add", ArgsXY), Direct("add", ArgsYX))

\* {"a":{"tool":"add","args":{}},"b":{"tool":"add","args":{}}}
TwiceText == Both(Direct("add", ArgsNone), Direct("add", ArgsNone))

Texts == {NestedText, DirectText, ShortText, NullText, SwappedText, TwiceText}

\* the texts fed after a reset
TextsAfterReset == {DirectText, ShortText}

\* where a chunk boundary falls inside a string literal: the part of the
\* literal's content before it
CutOf == [tool_call |-> "tool", tool |-> "to", add |-> "ad", echo |-> "e",
          args |-> "a", x |-> "", y |-> "", a |-> "", b |-> ""]

\* and the part after it, up to the quote that closes the literal
RestOf == [tool_call |-> "_call", tool |-> "ol", add |-> "d", echo |-> "cho",
           args |-> "rgs", x |-> "x", y |-> "y", a |-> "a", b |-> "b"]

\* the chunk between two chunk boundaries of a text: from after the first
\* `fed` tokens (and the open part of the next one) to after the first p
\* tokens (and the open part of the next one)
ChunkOf(text, fed, open, p, open2) ==
    IF p = fed
    THEN IF open = open2 THEN <<>> ELSE <<OpenStr(CutOf[text[p + 1].v])>>
    ELSE (IF open THEN <<RestStr(RestOf[text[fed + 1].v])>> ELSE <<>>)
         \o SubSeq(text, IF open THEN fed + 2 ELSE fed + 1, p)
         \o (IF open2 THEN <<OpenStr(CutOf[text[p + 1].v])>> ELSE <<>>)

\* the chunk takes the place of the buffer (a plausible slip)
Overwrite(buffer, chunk) == chunk

\* buffer + chunk: the chunk's first characters end the string literal that
\* the buffer left open
Concat(buffer, chunk) ==
    IF chunk = <<>> THEN buffer
    ELSE IF chunk[1].k = "t"
    THEN [buffer EXCEPT ![Len(buffer)] = Str(@.v \o chunk[1].v)] \o Tail(chunk)
    ELSE buffer \o chunk

\* the first p tokens of a text, and the open part of the next one
Prefix(text, p, open) ==
    SubSeq(text, 1, p) \o (IF open THEN <<OpenStr(CutOf[text[p + 1].v])>> ELSE <<>>)

\* text + c for a character c, '}' or '"'
AddChar(t, c) ==
    IF t # <<>> /\ t[Len(t)].k = "o"
    THEN IF c = "\"" THEN [t EXCEPT ![Len(t)] = Str(@.v)]
         ELSE [t EXCEPT ![Len(t)] = OpenStr(@.v \o c)]
    ELSE IF c = "\"" THEN Append(t, OpenStr("")) ELSE Append(t, Punct(c))

RECURSIVE AddChars(_, _)
AddChars(t, cs) == IF cs = <<>> THEN t ELSE AddChars(AddChar(t, Head(cs)), Tail(cs))

\* null and undefined
Null == <<>>

\* the element of a set of one element
The(S) == CHOOSE x \in S : TRUE

\* JSON.parse's grammar on tokens: the index of the last token of the value
\* that starts at token i, 0 if none does
RECURSIVE ValueEnd(_, _)
RECURSIVE MembersEnd(_, _)
ValueEnd(t, i) ==
    IF i > Len(t) THEN 0
    ELSE IF t[i].k \in {"s", "n", "l"} THEN i
    ELSE IF t[i] = LB
         THEN IF i + 1 <= Len(t) /\ t[i + 1] = RB THEN i + 1
              ELSE MembersEnd(t, i + 1)
         ELSE 0

\* the index of the } closing the object whose members start at token i
MembersEnd(t, i) ==
    IF i + 2 > Len(t) THEN 0
    ELSE IF t[i].k # "s" \/ t[i + 1] # Colon THEN 0
    ELSE LET e == ValueEnd(t, i + 2)
         IN  IF e = 0 \/ e + 1 > Len(t) THEN 0
             ELSE IF t[e + 1] = RB THEN e + 1
             ELSE IF t[e + 1] = Comma THEN MembersEnd(t, e + 2)
             ELSE 0

\* the text without the white space between its tokens
NoWhite(t) == SelectSeq(t, LAMBDA tok : tok.k # "w")

\* safeJsonParse: the value, held as its tokens, or null
safeJsonParse(t) ==
    The({IF u # <<>> /\ ValueEnd(u, 1) = Len(u) THEN u ELSE Null : u \in {NoWhite(t)}})

\* if (parsed): null, whether JSON.parse failed or parsed the literal null,
\* is falsy, and every object is truthy
IsTruthy(parsed) == parsed # Null /\ parsed # <<NullLit>>

isPlainObject(v) == v # <<>> /\ v[1] = LB

\* the members of the object t from token i on, in order
RECURSIVE MembersFrom(_, _)
MembersFrom(t, i) ==
    IF t[i] = RB THEN <<>>
    ELSE LET e == ValueEnd(t, i + 2)
         IN  <<[key |-> t[i].v, val |-> SubSeq(t, i + 2, e)]>>
             \o (IF t[e + 1] = Comma THEN MembersFrom(t, e + 2) ELSE <<>>)

\* Object.entries(v), empty for what is not an object
Entries(v) == IF isPlainObject(v) THEN MembersFrom(v, 2) ELSE <<>>

\* v[key], undefined when v has no such property
Get(v, key) ==
    LET m == Entries(v)
        at == {i \in DOMAIN m : m[i].key = key}
    IN  IF at = {} THEN Null
        ELSE m[CHOOSE i \in at : \A j \in at : j <= i].val

\* hasToolCallStructure, lines 193-198
hasToolCallStructure(obj) ==
    /\ isPlainObject(obj)
    /\ LET tool == Get(obj, "tool")
       IN  Len(tool) = 1 /\ tool[1].k = "s" /\ tool[1].v # ""
    /\ Get(obj, "args") # Null

\* hasNestedToolCall, lines 205-209
hasNestedToolCall(obj) ==
    /\ isPlainObject(obj)
    /\ IsTruthy(Get(obj, "tool_call"))
    /\ hasToolCallStructure(Get(obj, "tool_call"))

\* a normalisation that drops the args (a plausible slip)
normalizeNoArgs(toolCall) == [tool |-> Get(toolCall, "tool")[1].v, args |-> <<LB, RB>>]

\* normalizeToolCall, lines 216-221
normalizeToolCall(toolCall) ==
    [tool |-> Trim(Get(toolCall, "tool")[1].v),
     args |-> IF isPlainObject(Get(toolCall, "args")) THEN Get(toolCall, "args")
              ELSE <<LB, RB>>]

\* extractToolCalls, lines 142-186, on data without arrays; null is <<>>
RECURSIVE extractToolCalls(_)
RECURSIVE ExtractNested(_, _)
extractToolCalls(data) ==
    (IF hasToolCallStructure(data) THEN <<normalizeToolCall(data)>> ELSE <<>>)
    \o (IF IsTruthy(Get(data, "tool_call")) /\ hasToolCallStructure(Get(data, "tool_call"))
        THEN <<normalizeToolCall(Get(data, "tool_call"))>> ELSE <<>>)
    \o ExtractNested(Entries(data), 1)

\* the loop of lines 174-183 from entry i on
ExtractNested(m, i) ==
    IF i > Len(m) THEN <<>>
    ELSE (IF m[i].key \notin {"tool_call", "tool_calls"}
          THEN extractToolCalls(m[i].val) ELSE <<>>)
         \o ExtractNested(m, i + 1)

\* extractToolCalls raises a TypeError: line 151 reads data.tool_call, and the
\* recursion of lines 174-183 passes it every value of an object, the value
\* null included
RECURSIVE extractThrows(_)
extractThrows(data) ==
    \/ data = <<NullLit>>
    \/ /\ isPlainObject(data)
       /\ \E m \in {Entries(data)} : \E i \in DOMAIN m :
              /\ m[i].key \notin {"tool_call", "tool_calls"}
              /\ extractThrows(m[i].val)

\* the index of the first { or } after token i, Len(t) + 1 if there is none
RECURSIVE NextBrace(_, _)
NextBrace(t, i) ==
    IF i + 1 > Len(t) THEN Len(t) + 1
    ELSE IF t[i + 1] \in {LB, RB} THEN i + 1
    ELSE NextBrace(t, i + 1)

\* the index of the first } after token i, Len(t) + 1 if there is none
RECURSIVE NextClose(_, _)
NextClose(t, i) ==
    IF i + 1 > Len(t) THEN Len(t) + 1
    ELSE IF t[i + 1] = RB THEN i + 1
    ELSE NextClose(t, i + 1)

Has(t, i, tok) == i <= Len(t) /\ t[i] = tok

\* the regular expressions of lines 65-74, matched from token i: the index
\* of the last token of the match, 0 if there is no match.  1:
\* \{"tool_call":\s*\{[^}]+\}\s*\}   2: \{[^{}]*"tool"[^{}]*"args"[^{}]*\}
\* 3: \{[^{}]*\{[^{}]*\}[^{}]*\}        4: \{[^{}]+\}
MatchEnd(pattern, t, i) ==
    IF ~Has(t, i, LB) THEN 0
    ELSE IF pattern = "standard"
    THEN LET r == NextClose(t, i + 3)
         IN  IF /\ Has(t, i + 1, Str("tool_call")) /\ Has(t, i + 2, Colon)
                /\ Has(t, i + 3, LB)
                /\ r > i + 4 /\ Has(t, r, RB) /\ Has(t, r + 1, RB)
             THEN r + 1 ELSE 0
    ELSE IF pattern = "alternative"
    THEN LET b == NextBrace(t, i)
         IN  IF /\ Has(t, b, RB)
                /\ \E j, k \in (i + 1)..(b - 1) :
                       j < k /\ t[j] = Str("tool") /\ t[k] = Str("args")
             THEN b ELSE 0
    ELSE IF pattern = "nested"
    THEN LET b1 == NextBrace(t, i)
             b2 == NextBrace(t, b1)
             b3 == NextBrace(t, b2)
         IN  IF Has(t, b1, LB) /\ Has(t, b2, RB) /\ Has(t, b3, RB) THEN b3 ELSE 0
    ELSE LET b == NextBrace(t, i)
         IN  IF Has(t, b, RB) /\ b > i + 1 THEN b ELSE 0

Patterns == <<"standard", "alternative", "nested", "simple">>

\* text.match(pattern) with the g flag: the matches from token i on, from
\* left to right, none overlapping another
RECURSIVE Matches(_, _, _)
Matches(pattern, t, i) ==
    IF i > Len(t) THEN <<>>
    ELSE LET e == MatchEnd(pattern, t, i)
         IN  IF e > 0 THEN <<SubSeq(t, i, e)>> \o Matches(pattern, t, e + 1)
             ELSE Matches(pattern, t, i + 1)

\* what the loops of extractJsonFromText and handleStreamingJson accept
Recognised(parsed) ==
    IsTruthy(parsed) /\ (hasToolCallStructure(parsed) \/ hasNestedToolCall(parsed))

\* the first of the candidates that parses to something recognised, or null
FirstRecognised(candidates) ==
    The({LET ok == {i \in DOMAIN c : \E parsed \in {safeJsonParse(c[i])} :
                                        Recognised(parsed)}
         IN  IF ok = {} THEN Null
             ELSE safeJsonParse(c[CHOOSE i \in ok : \A j \in ok : i <= j]) :
         c \in {candidates}})

\* extractJsonFromText, lines 63-90
extractJsonFromText(text) ==
    FirstRecognised(Matches(Patterns[1], text, 1) \o Matches(Patterns[2], text, 1)
                    \o Matches(Patterns[3], text, 1) \o Matches(Patterns[4], text, 1))

\* the completions handleStreamingJson tries, lines 98-107
Completions == << <<"}">>, <<"}", "}">>, <<"}", "}", "}">>,
                 <<"\"">>, <<"\"", "}">>, <<"\"", "}", "}">> >>

\* the number of tokens of t that are tok
Count(t, tok) == Cardinality({i \in DOMAIN t : t[i] = tok})

\* handleStreamingJson, lines 96-135
handleStreamingJson(text) ==
    LET starts == {i \in DOMAIN text : text[i] = LB}
        jsonCandidate == SubSeq(text, CHOOSE i \in starts : \A j \in starts : i <= j,
                                Len(text))
        missing == Count(jsonCandidate, LB) - Count(jsonCandidate, RB)
    IN  The({IF IsTruthy(attempt) THEN attempt
             ELSE IF starts # {} /\ missing > 0 /\ missing <= 3
                  THEN FirstRecognised(<<AddChars(jsonCandidate,
                                                  [k \in 1..missing |-> "}"])>>)
                  ELSE Null :
             attempt \in {FirstRecognised([k \in DOMAIN Completions |->
                                              AddChars(text, Completions[k])])}})

\* parseStringInput, lines 38-56; the texts have no blanks to trim
parseStringInput(input) ==
    IF input = <<>> THEN Null
    ELSE The({IF IsTruthy(directParse) THEN directParse
              ELSE The({IF IsTruthy(extracted) THEN extracted
                        ELSE handleStreamingJson(input) :
                        extracted \in {extractJsonFromText(input)}}) :
              directParse \in {safeJsonParse(input)}})

\* parse, lines 13-31, of a string: the tool calls, <<>> for null
parse(input) ==
    The({IF ~IsTruthy(data) THEN <<>> ELSE extractToolCalls(data) :
            data \in {parseStringInput(input)}})

\* what a call returned, or that it raised
Value(val) == [kind |-> "return", val |-> val]
TypeError == [kind |-> "throw", val |-> <<"TypeError">>]

\* parse, lines 13-31, of a string: what it returns, or that it raises
parseString(input) ==
    The({IF ~IsTruthy(data) THEN Value(Null)
         ELSE IF extractThrows(data) THEN TypeError
         ELSE Value(extractToolCalls(data)) :
         data \in {parseStringInput(input)}})

\* parse of a string raises
parseThrows(input) == parseString(input).kind = "throw"

\* an input of parse and parseMultiple: a string, an object, or a value that
\* is neither, each with its JSON tokens
Input(type, v) == [type |-> type, v |-> v]

\* parse, lines 13-31, of any input
parseInput(input) ==
    IF input.type = "string" THEN parseString(input.v)
    ELSE IF input.type = "object"
    THEN IF extractThrows(input.v) THEN TypeError
         ELSE Value(extractToolCalls(input.v))
    ELSE Value(Null)

\* input.split(/\n|\r\n|\r/), lines 235: the lines of a text
RECURSIVE Split(_)
Split(t) ==
    IF \A i \in DOMAIN t : t[i] # NewLine THEN <<t>>
    ELSE The({<<SubSeq(t, 1, n - 1)>> \o Split(SubSeq(t, n + 1, Len(t))) :
              n \in {CHOOSE i \in DOMAIN t :
                         t[i] = NewLine /\ \A j \in 1..(i - 1) : t[j] # NewLine}})

\* the records of the parts, lines 237-242, from part i on, given what
\* parse returned for each part
RECURSIVE PartsCalls(_, _)
PartsCalls(outs, i) ==
    IF i > Len(outs) THEN <<>> ELSE outs[i].val \o PartsCalls(outs, i + 1)

\* existing.tool === call.tool &&
\* JSON.stringify(existing.args) === JSON.stringify(call.args): JSON.stringify
\* writes the keys in the order the object has them, which for a parsed
\* object is the order of its text
SameCall(existing, newCall) ==
    existing.tool = newCall.tool /\ existing.args = newCall.args

\* the merge of lines 248-256, from record i of wholeParse on
RECURSIVE Merge(_, _, _)
Merge(allToolCalls, wholeParse, i) ==
    IF i > Len(wholeParse) THEN allToolCalls
    ELSE IF \E k \in DOMAIN allToolCalls : SameCall(allToolCalls[k], wholeParse[i])
         THEN Merge(allToolCalls, wholeParse, i + 1)
         ELSE Merge(Append(allToolCalls, wholeParse[i]), wholeParse, i + 1)

\* parseMultiple, lines 228-266
parseMultiple(input) ==
    IF input.type = "string"
    THEN IF input.v = <<>> THEN Value(Null)
         ELSE The({IF \E i \in DOMAIN outs : outs[i].kind = "throw" THEN TypeError
                   ELSE The({IF wholeParse.kind = "throw" THEN TypeError
                             ELSE The({Value(Merge(allToolCalls, wholeParse.val, 1)) :
                                       allToolCalls \in {PartsCalls(outs, 1)}}) :
                             wholeParse \in {parseString(input.v)}}) :
                   outs \in {The({[i \in DOMAIN parts |-> parseString(parts[i])] :
                                  parts \in {Split(input.v)}})}})
    ELSE parseInput(input)

\* a filter that lets every call through (a plausible slip)
KeepAll(newCalls, foundCalls) == newCalls

\* the calls not found before, lines 312-317
Unique(newCalls, foundCalls) ==
    SelectSeq(newCalls, LAMBDA newCall :
                            ~\E k \in DOMAIN foundCalls : SameCall(foundCalls[k], newCall))

\* the new calls take the place of those found before (a plausible slip)
PushReplaces(foundCalls, uniqueNewCalls) == uniqueNewCalls

\* this.foundCalls.push(...uniqueNewCalls), line 320
Push(foundCalls, uniqueNewCalls) == foundCalls \o uniqueNewCalls

\* addChunk(chunk), lines 302-326, on the parser p: its buffer and found
\* calls afterwards, and what it returned
addChunk(p, chunk) ==
    IF chunk.type # "string"
    THEN [buffer |-> p.buffer, foundCalls |-> p.foundCalls, out |-> Value(Null)]
    ELSE The({IF newCalls.kind = "throw"
              THEN [buffer |-> buffer, foundCalls |-> p.foundCalls, out |-> TypeError]
              ELSE The({IF Len(uniqueNewCalls) > 0
                        THEN [buffer |-> buffer,
                              foundCalls |-> Push(p.foundCalls, uniqueNewCalls),
                              out |-> Value(uniqueNewCalls)]
                        ELSE [buffer |-> buffer, foundCalls |-> p.foundCalls,
                              out |-> Value(Null)] :
                        uniqueNewCalls \in {Unique(newCalls.val, p.foundCalls)}}) :
              buffer \in {Concat(p.buffer, chunk.v)},
              newCalls \in {parseString(Concat(p.buffer, chunk.v))}})

\* the variables of the Executor model but ret
executor == <<registry, validators, strict, call, promises, hist, regOps, peer, mcp>>

\* new StreamingParser(), lines 292-295, to be fed the chunks of text
NewStreamingParser(text) ==
    /\ stream.text = <<>>
    /\ stream' = [NoStream EXCEPT !.text = text]
    /\ ret' = NoRet
    /\ UNCHANGED <<executor, ids>>

\* the parser's calls since its last reset are repeated on a parser that was
\* new at that reset
Feed(chunk, p, open) ==
    \E r \in {addChunk(stream, chunk)} :
    \E f \in {IF stream.fresh.buffer = stream.buffer
                  /\ stream.fresh.foundCalls = stream.foundCalls
               THEN r ELSE addChunk(stream.fresh, chunk)} :
        /\ stream' = [stream EXCEPT
                          !.fed = p, !.open = open,
                          !.buffer = r.buffer, !.foundCalls = r.foundCalls,
                          !.returned = IF r.out.kind = "return" THEN @ \o r.out.val ELSE @,
                          !.fresh = [buffer |-> f.buffer, foundCalls |-> f.foundCalls]]
        /\ ret' = Ret("addChunk", <<chunk.type>>, r.out.kind, r.out.val, <<f.out>>)

\* addChunk(chunk), with the chunk that takes the text fed from its first
\* stream.fed tokens to its first p tokens and, if open, into the next
\* string literal
AddChunk(p, open) ==
    /\ stream.text # <<>>
    /\ p >= stream.fed /\ p <= Len(stream.text)
    /\ p = stream.fed => (stream.open => open)
    /\ open => (p < Len(stream.text) /\ stream.text[p + 1].k = "s")
    /\ \E chunk \in {ChunkOf(stream.text, stream.fed, stream.open, p, open)} :
           Feed(Input("string", chunk), p, open)
    /\ UNCHANGED <<executor, ids>>

\* addChunk(chunk) with a chunk that is not a string, line 303
AddNonString(chunk) ==
    /\ stream.text # <<>>
    /\ Feed(chunk, stream.fed, stream.open)
    /\ UNCHANGED <<executor, ids>>

\* a reset that forgets the buffer only (a plausible slip)
resetKeepsFound(p) == [buffer |-> <<>>, foundCalls |-> p.foundCalls]

\* reset(), lines 339-342
reset(p) == [buffer |-> <<>>, foundCalls |-> <<>>]

\* reset(), after which the chunks of text are fed
Reset(text) ==
    /\ stream.text # <<>>
    /\ stream.resets < MaxResets
    /\ \E r \in {reset(stream)} :
           stream' = [stream EXCEPT !.buffer = r.buffer, !.foundCalls = r.foundCalls,
                                    !.returned = <<>>, !.fresh = NewParser,
                                    !.before = stream.returned,
                                    !.text = text, !.fed = 0, !.open = FALSE,
                                    !.resets = @ + 1]
    /\ ret' = Ret("reset", <<>>, "return", <<>>, <<>>)
    /\ UNCHANGED <<executor, ids>>

\* getAllCalls(), lines 332-334
GetAllCalls ==
    /\ stream.text # <<>>
    /\ ret' = Ret("getAllCalls", <<>>, "return", stream.foundCalls, <<>>)
    /\ UNCHANGED <<executor, ids, stream>>

\* getBuffer(), lines 348-350
GetBuffer ==
    /\ stream.text # <<>>
    /\ ret' = Ret("getBuffer", <<>>, "return", stream.buffer, <<>>)
    /\ UNCHANGED <<executor, ids, stream>>

\* chunks that are not strings
NonStrings == {Input("undefined", <<>>), Input("object", DirectText)}

NextStream ==
    \/ \E text \in Texts : NewStreamingParser(text)
    \/ \E p \in 0..Len(stream.text), open \in BOOLEAN : AddChunk(p, open)
    \/ \E chunk \in NonStrings : AddNonString(chunk)
    \/ \E text \in TextsAfterReset : Reset(text)
    \/ GetAllCalls
    \/ GetBuffer

SpecStream == Init /\ [][NextStream]_vars

\* {"x":{"y":2}}, and args that have themselves the structure of a tool call
ArgsDeep == <<LB>> \o Member("x", <<LB>> \o Member("y", <<Num("2")>>) \o <<RB>>) \o <<RB>>
ArgsCall == Direct("echo", ArgsNone)
ArgsMappings == {ArgsNone, ArgsX, ArgsXY, ArgsYX, ArgsNull, ArgsDeep, ArgsCall}

\* the texts of one tool call, in the nested and in the direct format
CallTexts ==
    {Nested(tool, args) : tool \in ToolNames, args \in ArgsMappings}
    \cup {Direct(tool, args) : tool \in ToolNames, args \in ArgsMappings}

\* texts of one line each
Lines == {Direct(tool, args) : tool \in ToolNames, args \in {ArgsX, ArgsXY, ArgsYX}}
         \cup {NullText, Nested("add", ArgsX)}

\* one tool call after another in one line, and one per line
Sequels == {first \o second : first \in Lines, second \in Lines}
TwoLines == {first \o <<NewLine>> \o second : first \in Lines, second \in Lines}

\* the inputs of parse and parseMultiple
ParseInputs ==
    {Input("string", text) : text \in CallTexts \cup Sequels \cup TwoLines
                                      \cup {<<>>, <<NullLit>>, <<Num("1")>>}}
    \cup {Input("object", text) : text \in CallTexts \cup {ArgsNone}}
    \cup {Input("number", <<Num("1")>>), Input("null", <<NullLit>>),
          Input("undefined", <<>>)}

\* parse(input) is called
Parse(input) ==
    /\ ret = NoRet
    /\ \E out \in {parseInput(input)} :
           ret' = Ret("parse", <<input>>, out.kind, out.val, <<>>)
    /\ UNCHANGED <<executor, ids, stream>>

\* parseMultiple(input) is called
ParseMultiple(input) ==
    /\ ret = NoRet
    /\ \E out \in {parseMultiple(input)} :
           ret' = Ret("parseMultiple", <<input>>, out.kind, out.val, <<>>)
    /\ UNCHANGED <<executor, ids, stream>>

NextParse ==
    \/ \E input \in ParseInputs : Parse(input)
    \/ \E input \in ParseInputs : ParseMultiple(input)

SpecParse == Init /\ [][NextParse]_vars

-----------------------------------------------------------------------------
(* part_001 and index.js: validateToolCalls, MCPRuntime.parse / parseMultiple *)

\* tool names with white space inside or around them; in a JSON text the
\* tab and the line break are written as escapes, which JSON.parse resolves
WhiteNames == {"a b", "a\tb", "a\nb", " add ", "  "}

\* the characters of a tool name; a name without white space is one piece
CharsOf(tool) ==
    CASE tool = "a b" -> <<"a", " ", "b">>
      [] tool = "a\tb" -> <<"a", "\t", "b">>
      [] tool = "a\nb" -> <<"a", "\n", "b">>
      [] tool = " add " -> <<" ", "add", " ">>
      [] tool = "  " -> <<" ", " ">>
      [] tool = "" -> <<>>
      [] OTHER -> <<tool>>

\* String.prototype.includes for one character
Includes(tool, ch) == \E i \in DOMAIN CharsOf(tool) : CharsOf(tool)[i] = ch

\* the filter of validateToolCalls, lines 276-284, on a record whose tool
\* is a string
ValidCall(c) ==
    /\ c.tool # "" /\ c.args # Null
    /\ ~Includes(c.tool, " ") /\ ~Includes(c.tool, "\n")
    /\ isPlainObject(c.args)

\* validateToolCalls, lines 273-285
validateToolCalls(toolCalls) == SelectSeq(toolCalls, ValidCall)

\* MCPRuntime.parse and parseMultiple, lines 69-82 of index.js, applied to what
\* parse or parseMultiple gave
Validated(out) ==
    IF out.kind = "throw" \/ out.val = Null THEN out
    ELSE Value(validateToolCalls(out.val))

\* the records validateToolCalls is given directly: args that are a mapping,
\* a string, or missing
RawCalls ==
    {[tool |-> tool, args |-> args] :
        tool \in ToolNames \cup WhiteNames \cup {""},
        args \in {ArgsX, <<Str("x")>>, Null}}

\* the texts MCPRuntime.parse is given
RuntimeInputs ==
    {Input("string", Direct(tool, args)) :
        tool \in ToolNames \cup WhiteNames, args \in {ArgsNone, ArgsXY, ArgsCall}}
    \cup {Input("string", Nested(tool, args)) :
        tool \in ToolNames \cup WhiteNames, args \in {ArgsNone, ArgsXY, <<Str("x")>>}}
    \cup {Input("string", NullText), Input("string", <<>>), Input("undefined", <<>>)}

\* validateToolCalls(toolCalls) is called
ValidateToolCalls(toolCalls) ==
    /\ ret = NoRet
    /\ ret' = Ret("validateToolCalls", <<toolCalls>>, "return",
                  validateToolCalls(toolCalls), <<>>)
    /\ UNCHANGED <<executor, ids, stream>>

\* MCPRuntime.parse(llmResponse) is called
RuntimeParse(input) ==
    /\ ret = NoRet
    /\ \E out \in {Validated(parseInput(input))} :
           ret' = Ret("MCPRuntime.parse", <<input>>, out.kind, out.val, <<>>)
    /\ UNCHANGED <<executor, ids, stream>>

\* MCPRuntime.parseMultiple(llmResponse) is called
RuntimeParseMultiple(input) ==
    /\ ret = NoRet
    /\ \E out \in {Validated(parseMultiple(input))} :
           ret' = Ret("MCPRuntime.parseMultiple", <<input>>, out.kind, out.val, <<>>)
    /\ UNCHANGED <<executor, ids, stream>>

NextRuntime ==
    \/ \E first \in RawCalls, second \in RawCalls :
           ValidateToolCalls(<<first, second>>)
    \/ \E input \in RuntimeInputs : RuntimeParse(input)
    \/ \E input \in RuntimeInputs : RuntimeParseMultiple(input)

SpecRuntime == Init /\ [][NextRuntime]_vars

-----------------------------------------------------------------------------
(* part_000: MCPMessageHandler *)

\* RPC_ERRORS, lines 11-22
INVALID_REQUEST == -32600
METHOD_NOT_FOUND == -32601
INVALID_PARAMS == -32602
INTERNAL_ERROR == -32603
TOOL_NOT_FOUND == -32000
TOOL_EXECUTION_ERROR == -32001
INITIALIZATION_ERROR == -32003

\* createSuccessResponse and createErrorResponse, lines 363-395: key says
\* which of result and error the response carries
createSuccessResponse(id, result) ==
    [id |-> id, key |-> "result", code |-> 0, body |-> result]
createErrorResponse(id, code, message) ==
    [id |-> id, key |-> "error", code |-> code, body |-> message]

\* the handler answers the request of the method with the response
Answer(method, args, response) == Ret(method, args, "return", <<response>>, <<>>)

\* the guard of handleToolsList and handleToolsCall left out (a plausible slip)
NotInitializedNever(session) == FALSE

\* if (!this.initialized), lines 198 and 240
NotInitialized(session) == ~session.initialized

\* an exit that keeps the session (a plausible slip)
exitKeepsSession(session) == session

\* the state handleExit leaves, lines 343-344
exit(session) == [session EXCEPT !.initialized = FALSE, !.clientInfo = <<>>]

\* the ids of the requests, and what params.clientInfo holds (<<>>: nothing)
RequestIds == {1, 2}
ClientInfos == {<<"client">>, <<>>}

\* handleMessage, lines 72-123, for a request that validateRequest refuses
\* (lines 130-151) or whose method is not known (lines 106-111); the id of
\* the first is request.id || null
Unhandled(id, valid) ==
    /\ ret' = IF valid
              THEN Answer("unknown", <<id>>,
                       createErrorResponse(id, METHOD_NOT_FOUND,
                                           <<"Method '", "unknown", "' not found">>))
              ELSE Answer("invalid", <<id>>,
                       createErrorResponse(id, INVALID_REQUEST,
                                           <<"Invalid or missing jsonrpc version">>))
    /\ UNCHANGED <<executor, ids, stream>>

\* handleInitialize, lines 158-189
Initialize(id, clientInfo) ==
    /\ IF mcp.initialized
       THEN /\ ret' = Answer("initialize", <<id, clientInfo>>,
                           createErrorResponse(id, INITIALIZATION_ERROR,
                                               <<"Already initialized">>))
            /\ UNCHANGED mcp
       ELSE /\ mcp' = [mcp EXCEPT !.initialized = TRUE,
                                  !.clientInfo = IF clientInfo = <<>> THEN <<"{}">>
                                                 ELSE clientInfo]
            /\ ret' = Answer("initialize", <<id, clientInfo>>,
                           createSuccessResponse(id, <<"serverInfo", "capabilities">>))
    /\ UNCHANGED <<registry, validators, strict, call, promises, hist, regOps,
                   ids, stream, peer>>

\* handleToolsList, lines 196-231
ToolsList(id) ==
    /\ IF NotInitialized(mcp)
       THEN ret' = Answer("tools/list", <<id>>,
                       createErrorResponse(id, INTERNAL_ERROR, <<"Server not initialized">>))
       ELSE \E order \in Orders(DOMAIN registry) :
                LET tools == ListOf(registry, order)
                IN  ret' = Answer("tools/list", <<id>>,
                               createSuccessResponse(id,
                                   [i \in DOMAIN tools |-> tools[i].name]))
    /\ UNCHANGED <<executor, ids, stream>>

\* handleToolsCall, lines 238-272, up to its answer or to the suspension of
\* the executeSingle it awaits
ToolsCallBegin(id, name, args, thrown) ==
    /\ IF NotInitialized(mcp)
       THEN /\ ret' = Answer("tools/call", <<id, name>>,
                           createErrorResponse(id, INTERNAL_ERROR,
                                               <<"Server not initialized">>))
            /\ UNCHANGED <<registry, call, promises, hist, mcp>>
       ELSE IF name = "" \/ name = NonString
       THEN /\ ret' = Answer("tools/call", <<id, name>>,
                           createErrorResponse(id, INVALID_PARAMS,
                               <<"Tool name is required and must be a string">>))
            /\ UNCHANGED <<registry, call, promises, hist, mcp>>
       ELSE IF name \notin DOMAIN registry
       THEN /\ ret' = Answer("tools/call", <<id, name>>,
                           createErrorResponse(id, TOOL_NOT_FOUND,
                                               <<"Tool '", name, "' not found">>))
            /\ UNCHANGED <<registry, call, promises, hist, mcp>>
       ELSE /\ CanStart
            /\ LET tcs == Tagged(<<[tool |-> name, args |-> args]>>)
               IN  LaunchNext([Idle EXCEPT !.op = "toolsCall", !.toolCalls = tcs],
                              tcs, <<thrown>>, FreshPromises(tcs), FreshHist(tcs))
            /\ mcp' = [mcp EXCEPT !.request = <<id>>]
            /\ ret' = NoRet
    /\ UNCHANGED <<validators, strict, regOps, ids, stream, peer>>

\* handleToolsCall resumes after the await of line 272, lines 274-298
ToolsCallEnd ==
    /\ call.op = "toolsCall" /\ call.pc = "await"
    /\ promises[1].state \in {"fulfilled", "rejected"}
    /\ LET res == promises[1].res
           id == mcp.request[1]
       IN  /\ ret' = Answer("tools/call", <<id, call.toolCalls[1].tool>>,
                   IF promises[1].state = "rejected"
                   THEN createErrorResponse(id, TOOL_EXECUTION_ERROR,
                                            <<"Tool execution failed: ">> \o res.val)
                   ELSE IF Truthy(res)
                   THEN createErrorResponse(id, TOOL_EXECUTION_ERROR, res.val)
                   ELSE createSuccessResponse(id,
                            IF res.key = "result" THEN res.val ELSE <<Undefined>>))
           /\ call' = Returned(call, <<res>>)
    /\ mcp' = [mcp EXCEPT !.request = <<>>]
    /\ UNCHANGED <<registry, validators, strict, promises, hist, regOps, ids, stream, peer>>

\* handleShutdown, lines 306-325
Shutdown(id) ==
    /\ ret' = Answer("shutdown", <<id>>, createSuccessResponse(id, <<>>))
    /\ UNCHANGED <<executor, ids, stream>>

\* handleExit, lines 332-355
Exit(id) ==
    /\ mcp' = exit(mcp)
    /\ ret' = Answer("exit", <<id>>, createSuccessResponse(id, <<>>))
    /\ UNCHANGED <<registry, validators, strict, call, promises, hist, regOps,
                   ids, stream, peer>>

\* the tools registered on the server, the names and args tools/call is given
McpRegInputs == {<<"add", "h1", "xy">>}
CallNames == {"add", "echo", ""}
CallArgs == {ArgsGood, ArgsBadType}

\* a server: tools are registered and unregistered, and requests arrive, also
\* while the handler of a tools/call is in flight
NextMcp ==
    \/ \E r \in McpRegInputs : Register(r[1], r[2], r[3]) /\ Anytime
    \/ Unregister("add") /\ Anytime
    \/ \E id \in RequestIds, valid \in BOOLEAN : Unhandled(id, valid)
    \/ \E id \in RequestIds, clientInfo \in ClientInfos : Initialize(id, clientInfo)
    \/ \E id \in RequestIds : ToolsList(id)
    \/ \E id \in RequestIds, name \in CallNames, args \in CallArgs,
          thrown \in SyncOutcomes : ToolsCallBegin(id, name, args, thrown)
    \/ \E id \in DOMAIN promises, out \in AsyncOutcomes : HandlerSettle(id, out)
    \/ ToolsCallEnd
    \/ \E id \in RequestIds : Shutdown(id)
    \/ \E id \in RequestIds : Exit(id)
    \/ NextCall

SpecMcp == Init /\ [][NextMcp]_vars

-----------------------------------------------------------------------------
(* Properties *)

Done == call.pc = "done"
NumCalls == Len(call.toolCalls)
Pending == {i \in DOMAIN promises : promises[i].state = "pending"}
IsSettled(i) == promises[i].state \in {"fulfilled", "rejected"}
Failed == {i \in DOMAIN hist : hist[i].failed}
MsgHas(msg, token) == \E p \in DOMAIN msg : msg[p] = token

\* what execute reports for toolCall i once its promise has settled
ResultOf(i) == Awaited(call.toolCalls[i], promises[i])

\* the least element of a non-empty set of numbers
Least(S) == CHOOSE x \in S : \A y \in S : x <= y

\* C1 (as claimed): executeSingle and execute never reject, and every failed
\* execution is reported with the error key in its ExecutionResult.
C1_NoExceptionCrosses ==
    (Done /\ call.op \in {"single", "seq", "par"}) =>
        /\ call.status = "resolved"
        /\ \A k \in DOMAIN call.results :
               hist[k].failed => call.results[k].key = "error"

C3_SeqStopsAtFirstFailure ==
    (Done /\ call.op = "seq" /\ ~call.continueOnError) =>
        LET last == IF Failed = {} THEN NumCalls ELSE Least(Failed)
        IN  /\ Len(call.results) = last
            /\ \A k \in 1..last : call.results[k] = ResultOf(k)
            /\ \A j \in DOMAIN hist : j > last => ~hist[j].begun

\* C4: continueOnError=true: one result per record, result i named after
\* record i, in both modes.
C4_OneResultPerRecord ==
    (Done /\ call.op \in {"seq", "par"} /\ call.continueOnError) =>
        /\ Len(call.results) = NumCalls
        /\ \A k \in 1..NumCalls : call.results[k].tool = call.toolCalls[k].tool

\* C4 witness: a parallel call of three records with more than one batch,
\* with successes and failures
C4_Witness ==
    /\ Done /\ call.op = "par" /\ call.continueOnError
    /\ NumCalls = 3 /\ Len(call.batches) > 1
    /\ \E i \in DOMAIN hist : hist[i].failed
    /\ \E i \in DOMAIN hist : hist[i].invoked /\ ~hist[i].failed

\* C5: parallel mode: result k is the result of record k, whatever the order
\* in which the handlers settled.
C5_ParallelInputOrder ==
    call.op = "par" =>
        \A k \in DOMAIN call.results : call.results[k] = ResultOf(k)

\* C5 witness: in one batch the later record's handler settled first, and the
\* two results differ
C5_Witness ==
    /\ Done /\ call.op = "par"
    /\ \E i, j \in DOMAIN promises :
           /\ i < j /\ j <= call.maxConcurrency
           /\ hist[i].invoked /\ hist[j].invoked
           /\ promises[j].at < promises[i].at
           /\ ResultOf(i) # ResultOf(j)
           /\ call.results[i] = ResultOf(i)

\* the batch toolCall i belongs to, for maxConcurrency m
BatchOf(i, m) == ((i - 1) \div m) + 1

\* C6: parallel mode: ceil(n/m) consecutive batches of m records (the last
\* possibly smaller); at the await every toolCall of the current batch has
\* been begun; and a toolCall of a later batch is begun only when all
\* toolCalls of the earlier batches have settled.
C6_Batches ==
    call.op = "par" =>
        LET m == call.maxConcurrency
            n == NumCalls
        IN  /\ Len(call.batches) = (n + m - 1) \div m
            /\ \A b \in DOMAIN call.batches :
                   call.batches[b] =
                       SubSeq(call.toolCalls, (b - 1) * m + 1, Min(b * m, n))
            /\ call.pc = "await" =>
                   \A i \in 1..n : BatchOf(i, m) = call.i =>
                       /\ hist[i].begun
                       /\ (hist[i].found /\ hist[i].valid) => hist[i].invoked
            /\ \A i, j \in 1..n :
                   (hist[j].begun /\ BatchOf(i, m) < BatchOf(j, m)) =>
                       hist[i].begun /\ IsSettled(i)

\* C6 witness: five-into-(2,2,1) in small: three records, maxConcurrency 2,
\* second batch launched after a first batch with a failure and a success
C6_Witness ==
    /\ call.op = "par" /\ call.maxConcurrency = 2 /\ NumCalls = 3
    /\ call.i = 2 /\ hist[3].invoked
    /\ hist[1].invoked /\ hist[2].invoked
    /\ hist[1].failed /\ ~hist[2].failed

\* C7: parallel mode: at most maxConcurrency handlers are in flight.
C7_InFlightBound ==
    call.op = "par" => Cardinality(Pending) <= call.maxConcurrency

\* C7 witness: maxConcurrency handlers in flight, with more records than that
C7_Witness ==
    /\ call.op = "par" /\ call.maxConcurrency > 1
    /\ NumCalls > call.maxConcurrency
    /\ Cardinality(Pending) = call.maxConcurrency

\* C8 (as claimed): parallel, continueOnError=false: after the first batch
\* with a failed record no later batch is launched, and the results are those
\* of every record of the batches up to that one.
C8_ParStopsAfterFailedBatch ==
    (Done /\ call.op = "par" /\ ~call.continueOnError) =>
        LET m == call.maxConcurrency
            lastBatch == IF Failed = {} THEN BatchOf(NumCalls, m)
                         ELSE BatchOf(Least(Failed), m)
            last == Min(lastBatch * m, NumCalls)
        IN  /\ Len(call.results) = last
            /\ \A k \in 1..last : call.results[k] = ResultOf(k)
            /\ \A j \in DOMAIN hist : j > last => ~hist[j].begun

\* C9: sequential mode: the records are executed in input order and a record
\* is begun only when every earlier one has settled; at most one handler is
\* in flight.
C9_SequentialOrder ==
    call.op = "seq" =>
        /\ Cardinality(Pending) <= 1
        /\ \A i, j \in DOMAIN hist :
               (i < j /\ hist[j].begun) => hist[i].begun /\ IsSettled(i)

\* C9 witness: the second handler in flight after the first one settled
C9_Witness ==
    /\ call.op = "seq" /\ NumCalls > 1
    /\ hist[1].invoked /\ hist[1].settled
    /\ hist[2].invoked /\ promises[2].state = "pending"

\* C10 (as claimed): executeDirect returns normally exactly when the execution
\* succeeded, and then returns the handler's return value.
C10_DirectRaisesOnFailure ==
    (Done /\ call.op = "direct") =>
        /\ call.status = "resolved" <=> ~hist[1].failed
        /\ call.status = "resolved" =>
               \E fn \in Handlers :
                   call.results[1].val = ReturnValue(fn, call.toolCalls[1].args)

-----------------------------------------------------------------------------
(* Properties of the metadata and of the registry *)

\* the step begins an executeSingle call
StartsSingle == call.pc = "idle" /\ call'.pc = "await" /\ call'.op = "single"

\* the step is a handler's settlement, with the rest of its executeSingle
Settles == \E i \in DOMAIN promises :
               /\ i \in DOMAIN promises'
               /\ promises[i].state = "pending"
               /\ promises'[i].state # "pending"

\* the step is a successful register of the name n
Registers(n) ==
    ret'.op = "register" /\ ret'.val = <<"true">> /\ Trim(ret'.args[1]) = n

\* the registration of n exists before and after the step and is not replaced
Kept(n) == n \in DOMAIN registry /\ n \in DOMAIN registry' /\ ~Registers(n)

\* the step begins an executeSingle of the registered tool n whose args are
\* valid under n's schema
Accepts(n) ==
    /\ StartsSingle
    /\ call'.toolCalls[1].tool = n
    /\ n \in DOMAIN registry
    /\ AjvErrors(registry[n].schema, call'.toolCalls[1].args) = <<>>

HandlerFails(n) ==
    \/ Accepts(n) /\ hist'[1].failed
    \/ /\ Settles /\ call.toolCalls[1].tool = n
       /\ hist'[1].failed

\* C13 (as claimed): errorCount counts the failed handler invocations: a step
\* adds one to it exactly when an invoked handler of the registration fails,
\* and then lastError is set.
C13_ErrorCountCountsHandlerFailures ==
    [][\A n \in ToolNames : Kept(n) =>
           IF HandlerFails(n)
           THEN /\ registry'[n].errorCount = registry[n].errorCount + 1
                /\ registry'[n].lastError.set
           ELSE /\ registry'[n].errorCount = registry[n].errorCount
                /\ registry'[n].lastError = registry[n].lastError]_vars

\* C15: while a registration exists its counters never decrease, a step
\* changes each by 0 or +1, only a step of executeSingle changes them, and
\* the queries and a failed register leave the whole registry alone.
C15_CountersMonotonic ==
    [][/\ \A n \in ToolNames : Kept(n) =>
              /\ registry'[n].callCount - registry[n].callCount \in {0, 1}
              /\ registry'[n].errorCount - registry[n].errorCount \in {0, 1}
              /\ (~StartsSingle /\ ~Settles) =>
                     /\ registry'[n].callCount = registry[n].callCount
                     /\ registry'[n].errorCount = registry[n].errorCount
       /\ (\/ ret'.op \in {"getToolInfo", "listTools", "getStats", "describeTools"}
           \/ ret'.op = "register" /\ ret'.val # <<"true">>)
              => registry' = registry]_vars

\* C15 witness: a registration with a call and an error counted, reported by
\* getToolInfo while a handler of it is in flight
C15_Witness ==
    /\ ret.op = "getToolInfo"
    /\ ret.info # <<>>
    /\ ret.info[1].callCount = MaxCount /\ ret.info[1].errorCount > 0
    /\ call.pc = "await" /\ promises[1].state = "pending"
    /\ call.toolCalls[1].tool = ret.info[1].name

\* C17: a successful register stores a fresh registration under the trimmed
\* name, with the new handler and schema and with zeroed metadata, whether or
\* not the name was registered; and an execution validates against the schema
\* and invokes the handler that the name is registered with when it begins.
C17_ReRegisterReplaces ==
    [][/\ \A n \in ToolNames : Registers(n) =>
              /\ n \in DOMAIN registry'
              /\ registry'[n] = NewEntry(ret'.args[2], ret'.args[3])
              /\ validators'[n] = ret'.args[3]
              /\ \A m \in DOMAIN registry \ {n} :
                     m \in DOMAIN registry' /\ registry'[m] = registry[m]
       /\ \A n \in ToolNames :
              (StartsSingle /\ call'.toolCalls[1].tool = n /\ n \in DOMAIN registry) =>
                  /\ hist'[1].invoked <=> Accepts(n)
                  /\ promises'[1].state = "pending" =>
                         promises'[1].fn = registry[n].fn]_vars

\* C17 witness: "add" re-registered with another handler and schema while
\* its first handler was in flight and its metadata was not zero, and then
\* executed with args that only the new schema accepts
C17_Witness ==
    /\ "add" \in DOMAIN registry
    /\ registry["add"].fn = "h2" /\ registry["add"].errorCount > 0
    /\ Done /\ call.toolCalls[1] = [id |-> 1, tool |-> "add", args |-> ArgsBadType]
    /\ call.results[1] = ExecResult("add", "result", ReturnValue("h2", ArgsBadType))

\* C16: register fails exactly when the name is not a string or is blank, the
\* handler is not callable or the schema does not compile; a failed register
\* returns false in non-strict mode and raises in strict mode, and leaves the
\* registry and the compiled schemas as they were.
C16_FailedRegister ==
    [][ret'.op = "register" =>
           LET name == ret'.args[1]
               bad == \/ name = NonString
                      \/ Trim(name) = ""
                      \/ ret'.args[2] = NotAFunction
                      \/ ret'.args[3] = BadSchema
           IN  /\ bad <=> ret'.val # <<"true">>
               /\ ~bad => ret'.kind = "return"
               /\ bad =>
                      /\ registry' = registry
                      /\ validators' = validators
                      /\ IF strict THEN ret'.kind = "throw"
                         ELSE ret'.kind = "return" /\ ret'.val = <<"false">>]_vars

\* C16 witness: in strict mode a register of " add " with a schema that does
\* not compile has raised, and "add" is registered as it was
C16_Witness ==
    /\ strict
    /\ ret.op = "register" /\ ret.kind = "throw"
    /\ ret.args = <<" add ", "h1", BadSchema>>
    /\ "add" \in DOMAIN registry
    /\ registry["add"] = NewEntry("h1", "xy")

\* C18: the registry is a map from names to registrations: a name is
\* registered after a step exactly when the step registered it, or it was
\* registered before and the step neither unregistered it nor cleared the
\* registry; unregister returns whether the name was registered; hasTool
\* tells whether it is; listTools returns the registered names, each once,
\* in the order of their names.
C18_RegistryIsAMap ==
    [][/\ \A n \in NameInputs :
              n \in DOMAIN registry' <=>
                  \/ Registers(n)
                  \/ /\ n \in DOMAIN registry
                     /\ ~(ret'.op = "unregister" /\ ret'.args[1] = n)
                     /\ ret'.op # "clear"
       /\ ret'.op = "unregister" =>
              (ret'.val = <<"true">> <=> ret'.args[1] \in DOMAIN registry)
       /\ ret'.op = "hasTool" =>
              (ret'.val = <<"true">> <=> ret'.args[1] \in DOMAIN registry')
       /\ ret'.op = "listTools" =>
              /\ {ret'.val[i] : i \in DOMAIN ret'.val} = DOMAIN registry'
              /\ Len(ret'.val) = Cardinality(DOMAIN registry')
              /\ \A i, j \in DOMAIN ret'.val :
                     i < j => Before(ret'.val[i], ret'.val[j])]_vars

\* C18 witness: listTools has returned both names in order
C18_Witness ==
    /\ ret.op = "listTools"
    /\ ret.val = <<"add", "echo">>

\* C14 (as claimed): no two executions get the same callId.
C14_CallIdsUnique ==
    \A i, j \in DOMAIN ids.issued : i # j => ids.issued[i] # ids.issued[j]

\* the lifecycle events emitted for toolCall i, by position
TerminalEvents(i) ==
    {k \in DOMAIN hist[i].events : hist[i].events[k] \in {"result", "error"}}
CallEvents(i) == {k \in DOMAIN hist[i].events : hist[i].events[k] = "call"}

\* C19 (as claimed): an executeSingle that has finished has emitted exactly
\* one terminal event, 'result' or 'error' as its ExecutionResult is, and one
\* that has not finished none; it has emitted 'call' exactly when it invoked
\* the handler, once and before the terminal event.
C19_OneTerminalEvent ==
    \A i \in DOMAIN hist :
        /\ IsSettled(i) =>
               /\ Cardinality(TerminalEvents(i)) = 1
               /\ \A k \in TerminalEvents(i) :
                      hist[i].events[k] = promises[i].res.key
        /\ ~IsSettled(i) => TerminalEvents(i) = {}
        /\ Cardinality(CallEvents(i)) = (IF hist[i].invoked THEN 1 ELSE 0)
        /\ \A c \in CallEvents(i), t \in TerminalEvents(i) : c < t

\* C20 (as claimed): whatever the chunks, the records addChunk has returned
\* are records of parse(T), and once all of T is fed they are exactly the
\* records of parse(T), each once.
C20_StreamingEqualsParse ==
    stream.text # <<>> =>
        /\ \A i \in DOMAIN stream.returned :
               \E j \in DOMAIN parse(stream.text) :
                   stream.returned[i] = parse(stream.text)[j]
        /\ (stream.fed = Len(stream.text)) => stream.returned = parse(stream.text)

-----------------------------------------------------------------------------
(* Properties of the parser *)

\* the step is an addChunk call that returned
AddChunkReturns == ret'.op = "addChunk" /\ ret'.kind = "return"

\* C21: between two resets a record that an addChunk call returned is not
\* returned by a later one, although each call parses the whole buffer
\* again: what a call returns is the no-new-records signal, or a non-empty
\* sequence of records none of which was returned since the last reset.
C21_NeverReturnedAgain ==
    [][AddChunkReturns =>
           /\ \A i \in DOMAIN ret'.val : \A k \in DOMAIN stream.returned :
                  ~SameCall(stream.returned[k], ret'.val[i])
           /\ ret'.val = Null \/ Len(ret'.val) > 0
           /\ stream'.returned = stream.returned \o ret'.val]_vars

\* C21 witness: an addChunk call has returned the no-new-records signal for
\* a buffer whose parse yields records, all of them returned before
C21_Witness ==
    /\ ret.op = "addChunk" /\ ret.kind = "return" /\ ret.val = Null
    /\ stream.fed = Len(stream.text)
    /\ parseString(stream.buffer).kind = "return"
    /\ parseString(stream.buffer).val # Null
    /\ stream.returned = parseString(stream.buffer).val

\* the args a and b have the same keys with the same values
SameMapping(a, b) ==
    /\ Len(Entries(a)) = Len(Entries(b))
    /\ {Entries(a)[i] : i \in DOMAIN Entries(a)} = {Entries(b)[i] : i \in DOMAIN Entries(b)}

\* C22 (as claimed): duplicate detection does not depend on the order of the
\* keys: an addChunk call returns no record of the same tool as a record
\* returned by an earlier call whose args have the same keys and values,
\* in whatever order.
C22_KeyOrderIndependent ==
    [][AddChunkReturns =>
           \A i \in DOMAIN ret'.val : \A k \in DOMAIN stream.returned :
               ~(/\ stream.returned[k].tool = ret'.val[i].tool
                 /\ SameMapping(stream.returned[k].args, ret'.val[i].args))]_vars

\* C23 (as claimed): the found calls are a set: no two of them have the same
\* tool and equal args.
C23_FoundIsASet ==
    \A i, j \in DOMAIN stream.foundCalls :
        i # j => ~SameCall(stream.foundCalls[i], stream.foundCalls[j])

\* s is the beginning of t
IsPrefix(s, t) == Len(s) <= Len(t) /\ SubSeq(t, 1, Len(s)) = s

\* C24: getAllCalls is the concatenation, in call order, of what the addChunk
\* calls since the last reset returned; but for a reset, the found calls
\* only grow at their end.
C24_FoundIsWhatWasReturned ==
    [][/\ stream'.foundCalls = stream'.returned
       /\ ret'.op = "getAllCalls" => ret'.val = stream.returned
       /\ ret'.op \notin {"reset", "none"} =>
              IsPrefix(stream.foundCalls, stream'.foundCalls)]_vars

\* C24 witness: getAllCalls has returned records while the buffer, with the
\* chunks that came after them, yields no record any more
C24_Witness ==
    /\ ret.op = "getAllCalls" /\ ret.val # <<>>
    /\ parseString(stream.buffer) = Value(Null)

\* C25: the buffer is the concatenation of the string chunks passed since
\* the last reset, which getBuffer returns; a chunk that is not a string
\* gets the no-new-records signal and changes neither the buffer nor the
\* found calls.
C25_BufferAppendOnly ==
    [][/\ ret'.op = "addChunk" =>
              IF ret'.args = <<"string">>
              THEN stream'.buffer = Prefix(stream'.text, stream'.fed, stream'.open)
              ELSE /\ ret'.kind = "return" /\ ret'.val = Null
                   /\ stream'.buffer = stream.buffer
                   /\ stream'.foundCalls = stream.foundCalls
       /\ ret'.op = "getBuffer" =>
              ret'.val = Prefix(stream.text, stream.fed, stream.open)]_vars

\* C25 witness: a chunk that is not a string has come after a whole text
\* that came in several chunks and gave records, and the buffer is still
\* that text
C25_Witness ==
    /\ ret.op = "addChunk" /\ ret.args # <<"string">>
    /\ stream.buffer = NestedText /\ stream.fed = Len(stream.text)
    /\ Len(stream.foundCalls) > 1

\* C26: reset leaves the parser as the constructor does, and every addChunk
\* call after it returns what it returns on a parser that was new at the
\* reset and got the same chunks, and leaves the same buffer and found calls.
C26_ResetIsFresh ==
    [][/\ ret'.op = "reset" =>
              /\ stream'.buffer = NewParser.buffer
              /\ stream'.foundCalls = NewParser.foundCalls
       /\ ret'.op = "addChunk" =>
              /\ ret'.info = <<[kind |-> ret'.kind, val |-> ret'.val]>>
              /\ stream'.fresh = [buffer |-> stream'.buffer,
                                  foundCalls |-> stream'.foundCalls]]_vars

\* C26 witness: after a reset an addChunk call has returned a record that
\* was returned before the reset
C26_Witness ==
    /\ stream.resets > 0
    /\ ret.op = "addChunk" /\ ret.kind = "return" /\ ret.val # Null
    /\ \E k \in DOMAIN stream.before : SameCall(stream.before[k], ret.val[1])

\* C27: parse of the text {"tool_call":{"tool":name,"args":args}} returns the
\* one record {tool: name, args: args}.
C27_RoundTrip ==
    \A tool \in ToolNames, args \in ArgsMappings :
        (ret.op = "parse" /\ ret.args = <<Input("string", Nested(tool, args))>>) =>
            /\ ret.kind = "return"
            /\ ret.val = <<[tool |-> tool, args |-> args]>>

\* C27 witness: parse has returned for the nested text of a call whose args
\* hold null
C27_Witness ==
    /\ ret.op = "parse" /\ ret.kind = "return"
    /\ ret.args = <<Input("string", Nested("add", ArgsNull))>>

\* C28 (as claimed): parse, parseMultiple and addChunk never raise, and an
\* input that is neither a string nor an object yields the none result.
C28_NeverRaises ==
    ret.op \in {"parse", "parseMultiple", "addChunk"} =>
        /\ ret.kind = "return"
        /\ (ret.op # "addChunk" /\ ret.args[1].type \notin {"string", "object"}) =>
               ret.val = Null

\* C29 (as claimed): for a text that holds one tool call after another, and
\* so is not valid JSON as a whole, parse returns the records of both, in
\* the order of the text.
C29_EveryCandidate ==
    \A first, second \in Lines \ {NullText} :
        (ret.op = "parse" /\ ret.args = <<Input("string", first \o second)>>) =>
            /\ ret.kind = "return"
            /\ ret.val = parse(first) \o parse(second)

\* C30 (as claimed): the result of parseMultiple holds no two records with
\* the same tool and equal args.
C30_NoDuplicates ==
    (ret.op = "parseMultiple" /\ ret.kind = "return") =>
        \A i, j \in DOMAIN ret.val : i # j => ~SameCall(ret.val[i], ret.val[j])

-----------------------------------------------------------------------------
(* Properties of the registry's metadata and of addressing *)

\* the step settles the handler in flight of toolCall id
SettlesCall(id) ==
    /\ id \in DOMAIN promises /\ id \in DOMAIN promises'
    /\ promises[id].state = "pending" /\ promises'[id].state # "pending"

\* the last thing that ran before the step was a successful register of the
\* tool n: no executeSingle has begun since, so what is in flight was looked
\* up before that registration was made
JustRegistered(n) ==
    /\ ret.op = "register" /\ ret.val = <<"true">>
    /\ Trim(ret.args[1]) = n

\* C33 (as claimed): the failure of a handler that was in flight when its
\* tool was registered again is not recorded against the new registration:
\* the step that settles it leaves the registration's errorCount and
\* lastError as they were.
C33_StaleFailureNotRecorded ==
    [][\A id \in DOMAIN promises :
           (SettlesCall(id) /\ JustRegistered(call.toolCalls[id].tool)) =>
               LET n == call.toolCalls[id].tool
               IN  /\ registry'[n].errorCount = registry[n].errorCount
                   /\ registry'[n].lastError = registry[n].lastError]_vars

\* C34 (as claimed): every registered tool has errorCount <= callCount, and
\* getStats reports totalErrors <= totalCalls.
C34_ErrorsWithinCalls ==
    /\ \A n \in DOMAIN registry : registry[n].errorCount <= registry[n].callCount
    /\ ret.op = "getStats" => ret.info[1].totalErrors <= ret.info[1].totalCalls

\* C37 (as claimed): after register(name, fn, options) has returned true the
\* tool is addressable by the string that was passed: asked next with that
\* same string, hasTool returns true, getToolInfo an object and unregister
\* true.
C37_AddressableByGivenName ==
    [][(ret.op = "register" /\ ret.val = <<"true">> /\ ret'.args = <<ret.args[1]>>) =>
           /\ ret'.op = "hasTool" => ret'.val = <<"true">>
           /\ ret'.op = "getToolInfo" => ret'.info # <<>>
           /\ ret'.op = "unregister" => ret'.val = <<"true">>]_vars

\* C38 (as claimed): an object that itself has tool-call structure yields
\* exactly one record, whatever its args hold: values inside the args that
\* have a tool and args themselves are not reported as further tool calls.
C38_OneRecordPerMatch ==
    \A tool \in ToolNames, args \in ArgsMappings \ {ArgsNull} :
        (ret.op = "parse" /\ ret.args = <<Input("string", Direct(tool, args))>>) =>
            /\ ret.kind = "return"
            /\ ret.val = <<[tool |-> tool, args |-> args]>>

\* the message of the result or the rejection of toolCall id says that the
\* schema validator has no validator for the tool
NoValidatorFound(id) ==
    /\ promises[id].state \in {"fulfilled", "rejected"}
    /\ promises[id].res.key \in {"error", "thrown"}
    /\ MsgHas(promises[id].res.val,
              "No validator found for schema '" \o call.toolCalls[id].tool \o "'")

\* C36 (as claimed): whatever is registered, unregistered and cleared on the
\* Executors of a process, every tool in an Executor's registry has a
\* compiled validator for the schema it was registered with there, and no
\* execution of a tool that was found fails with 'No validator found'.
C36_ValidatorPerRegistration ==
    /\ \A n \in DOMAIN registry :
           n \in DOMAIN validators /\ validators[n] = registry[n].schema
    /\ \A id \in DOMAIN promises : hist[id].found => ~NoValidatorFound(id)

\* C35 (as claimed): execute returns once its handlers have settled, for
\* every integer maxConcurrency: the batching loop ends, because each of its
\* iterations moves i forward and puts at least one toolCall, whose handler
\* is then launched, into the batch it makes; and the batches it ends with
\* are the toolCalls in order.
C35_BatchingEnds ==
    [][/\ (call.pc = "batching" /\ call'.pc = "batching" /\ call' # call) =>
              /\ call'.i > call.i
              /\ call'.batches[Len(call'.batches)] # <<>>
       /\ (call.pc = "batching" /\ call'.pc = "await") =>
              Len(call.batches) <= Len(call.toolCalls)]_vars

\* a white space character
IsWhite(ch) == ch \in {" ", "\t", "\n"}

\* C31 (as claimed): every record that validateToolCalls lets through, and so
\* every record MCPRuntime.parse and parseMultiple return, has a tool that
\* is a non-empty string without any white space character (space, tab,
\* line break) and args that are a mapping.
C31_ValidatedRecords ==
    (ret.op \in {"validateToolCalls", "MCPRuntime.parse", "MCPRuntime.parseMultiple"}
     /\ ret.kind = "return") =>
        \A i \in DOMAIN ret.val :
            /\ ret.val[i].tool # ""
            /\ \A k \in DOMAIN CharsOf(ret.val[i].tool) :
                   ~IsWhite(CharsOf(ret.val[i].tool)[k])
            /\ isPlainObject(ret.val[i].args)

-----------------------------------------------------------------------------
(* Properties of the MCP session *)

\* the step answers a request of the method at once, in the synchronous
\* stretch in which the request arrives
AnswersAtOnce(method) == ret'.op = method /\ mcp'.request = mcp.request

\* the step answers the tools/call request whose executeSingle was awaited
AnswersAwaited == mcp.request # <<>> /\ mcp'.request = <<>>

\* C32 (as claimed): on an initialized session the response to a tools/call
\* request carries the request's id; it is a success result exactly when
\* the tool was registered, the arguments were valid and the handler
\* succeeded; it is the error TOOL_NOT_FOUND, with no execution begun, when
\* the name is not registered, and the error TOOL_EXECUTION_ERROR whenever
\* the ExecutionResult carries an error.
C32_ToolsCallResponse ==
    [][/\ (AnswersAtOnce("tools/call") /\ mcp.initialized) =>
              /\ ret'.val[1].id = ret'.args[1]
              /\ ret'.val[1].key = "error"
              /\ (ret'.args[2] \notin {"", NonString}
                  /\ ret'.args[2] \notin DOMAIN registry) =>
                     /\ ret'.val[1].code = TOOL_NOT_FOUND
                     /\ UNCHANGED <<registry, call, promises, hist>>
       /\ AnswersAwaited =>
              /\ ret'.val[1].id = mcp.request[1]
              /\ ret'.val[1].key = "result" <=>
                     (hist[1].found /\ hist[1].valid /\ hist[1].invoked
                      /\ ~hist[1].failed)
              /\ promises[1].res.key = "error" =>
                     (ret'.val[1].key = "error"
                      /\ ret'.val[1].code = TOOL_EXECUTION_ERROR)]_vars

C40_SessionLifecycle ==
    [][/\ ret'.op = "initialize" =>
              IF mcp.initialized
              THEN /\ ret'.val[1].key = "error"
                   /\ ret'.val[1].code = INITIALIZATION_ERROR
                   /\ mcp' = mcp
              ELSE /\ ret'.val[1].key = "result"
                   /\ mcp'.initialized
                   /\ mcp'.clientInfo = IF ret'.args[2] = <<>> THEN <<"{}">>
                                        ELSE ret'.args[2]
       /\ ret'.op = "exit" =>
              /\ ret'.val[1].key = "result"
              /\ ~mcp'.initialized /\ mcp'.clientInfo = <<>>
       /\ ret'.op = "shutdown" =>
              /\ ret'.val[1].key = "result"
              /\ mcp' = mcp
       /\ mcp'.initialized # mcp.initialized => ret'.op \in {"initialize", "exit"}]_vars

\* C40 witness: initialize has succeeded again after an exit: the handler
\* of a tools/call, which only an initialized session begins, is still in
\* flight, and the session has the info of a client that sent none before
C40_Witness ==
    /\ ret.op = "initialize" /\ ret.val[1].key = "result"
    /\ mcp.initialized /\ mcp.clientInfo = <<"{}">>
    /\ mcp.request # <<>> /\ promises[1].state = "pending"

====
